---- MODULE Spec2Model ----
(***************************************************************************)
(* Thread lifecycle, registry and close scheduler of the Modmail bot       *)
(* (src/core/thread.py, src/bot.py, src/cogs/modmail.py).                   *)
(*                                                                         *)
(* The model follows one recipient R.  `cache` is manager.cache.get(R),     *)
(* `closures` is config["closures"].get(str(R)); thread instances          *)
(* (ModmailThread objects) are numbered in creation order, and the channel *)
(* a thread creates in setup() carries the number of that thread.          *)
(*                                                                         *)
(* Every coroutine is a task with a program counter.  One action runs a    *)
(* coroutine from one suspension point (an await that really yields to the *)
(* event loop: network or database I/O, sleep, an unset event) to the      *)
(* next, as asyncio does; code between two suspension points is atomic.    *)
(***************************************************************************)
EXTENDS Integers, Sequences, FiniteSets, TLC

\* ------------------------------------------------------------------ bounds
MaxThreads == 2       \* ModmailThread instances created for R in one run
MaxOps == 3           \* gateway events (messages, commands, reactions) handled
MaxSchedOps == 2      \* gateway events handled in the runs of SpecSched and SpecClose
MaxReplies == 1       \* reply commands among them
MaxTime == 2          \* clock ticks
MaxAfter == 1         \* largest delay of a scheduled close
AutoCloseSeconds == 1 \* the configured thread_auto_close period, when set
MaxRelayOps == 2      \* relay events (messages, commands, reactions) handled

None == 0

VARIABLES
    cache,          \* manager.cache.get(R): a thread instance or None
    thr,            \* the ModmailThread instances created so far
    channels,       \* the thread channels of R that exist in the guild
    logs,           \* Log Store: state of the entry of each channel
    closures,       \* config["closures"].get(str(R)): the PendingClosure
    timers,         \* sleeping _close_after tasks
    fired,          \* history: _close_after tasks whose sleep has elapsed
    tasks,          \* coroutines in flight
    nops,           \* gateway events handled so far, and the replies among them
    now,            \* the clock
    autoClose,      \* config["thread_auto_close"] in seconds, 0 when unset
    overlap,        \* history: some close() started while another was running
    closeReturned,  \* history: close(after=0) calls that have returned
    createRet,      \* history: the threads returned by create()
    persisted,      \* config["closures"].get(str(R)) as loaded at start-up
    started,        \* bot._started
    notes,          \* db.notes: the persistent notes stored for R
    manager,        \* the registry of the guild's threads, by channel
    ctc,            \* the running create_thread_channel call
    chanHist,       \* the messages in the thread channel
    dmHist,         \* the messages in the DM channel of R
    messages,       \* Log Store: the "messages" array of the thread's entry
    ignored_messages,   \* thread._ignored_messages
    deleted_messages,   \* thread._deleted_messages
    relays,         \* relay coroutines in flight
    nextId,         \* the id the platform gives the next message
    nrelay,         \* relay events handled so far
    replies,        \* history: reply() calls that have returned or raised
    resolved,       \* history: the outcome of the last resolution
    delEvents       \* history: on_message_delete events handled

\* the thread registry, the close scheduler and the start-up state
lvars == <<cache, thr, channels, logs, closures, timers, fired, tasks,
           nops, now, autoClose, overlap, closeReturned, createRet,
           persisted, started, notes, manager, ctc>>

\* the message relay of the thread
rvars == <<chanHist, dmHist, messages, ignored_messages, deleted_messages,
           relays, nextId, nrelay, replies, resolved, delEvents>>

vars == <<lvars, rvars>>

\* ------------------------------------------------------------ data shapes
\* The three coroutines setup() gathers once the thread is ready: each is
\* "idle" until it has made its first call, then "run", "ok" or "failed";
\* `todo` holds the notes send_persistent_notes has still to replay, `ids`
\* the messages it has posted, `ready` whether thread_ready was dispatched.
NoTail == [genesis |-> "idle", recipient |-> "idle", notes |-> "idle",
           todo |-> <<>>, ids |-> <<>>, ready |-> FALSE]

\* ModmailThread.__init__; thread_create counts the dispatches of the event
NewThread(channel, ready, via) ==
    [channel |-> channel, ready |-> ready, cancelled |-> FALSE,
     close_task |-> None, auto_close_task |-> None,
     via |-> via, failed |-> FALSE, nfinal |-> 0, nnotice |-> 0,
     lastSend |-> 0, replied |-> {}, effects |-> {}, late |-> FALSE,
     thread_create |-> IF ready THEN 1 ELSE 0, tail |-> NoTail]

\* config.defaults["closures"]: no PendingClosure stored for R
NoClosure == [by |-> None, time |-> 0, auto |-> FALSE]

\* the PendingClosure of R in the configuration document the process loads
\* when it starts: none
NoPersisted == [by |-> None, time |-> 0, auto |-> FALSE,
                silent |-> FALSE, del |-> TRUE]

\* a coroutine frame: the operation it serves, where it is suspended, and
\* the arguments of the close() call it is executing, if any
NewTask(id, op, pc, th) ==
    [id |-> id, op |-> op, pc |-> pc, th |-> th, after |-> 0, auto |-> FALSE,
     silent |-> FALSE, del |-> TRUE, side |-> {}, t0 |-> 0, own |-> FALSE,
     hadLog |-> FALSE, raised |-> FALSE, undone |-> {}, sched |-> FALSE,
     nested |-> "", m |-> None, md |-> 0, prev |-> None, open |-> {}]

\* the part of the state the close machinery reads and writes
Cur == [cache |-> cache, thr |-> thr, timers |-> timers,
        closures |-> closures, now |-> now,
        createRet |-> createRet, closeReturned |-> closeReturned]

CommitState(s) ==
    /\ cache' = s.cache
    /\ thr' = s.thr
    /\ timers' = s.timers
    /\ closures' = s.closures
    /\ createRet' = s.createRet
    /\ closeReturned' = s.closeReturned
    /\ UNCHANGED <<persisted, started, notes, manager, ctc>>

Commit(s) == CommitState(s) /\ UNCHANGED rvars

ClosePcs == {"cc_wait", "arm_wait", "close_cc_wait", "log_wait", "gather"}

\* a close() or _close() is executing on behalf of task k
InClose(k) == k.pc \in ClosePcs

\* task k has evicted its thread in _close and is in the I/O that follows
Closing(k) == k.own /\ k.pc \in {"close_cc_wait", "log_wait", "gather"}

\* ------------------------------------------------------- cancel_closure()
\* The synchronous part of cancel_closure: cancel the selected handles and
\* pop the PendingClosure of R.  The await of config.update() that follows
\* when a record was popped is a suspension point of the caller.
\* A sleeping timer of the selected kind that neither handle refers to is
\* not cancelled; the model marks it (cc) for the history, and notes (late)
\* a call other than _close's own that finds the thread evicted.
CancelClosureKeepsTask(s, t, auto_close, all) ==
    LET c1 == s.thr[t].close_task # None /\ (~auto_close \/ all)
        c2 == s.thr[t].auto_close_task # None /\ (auto_close \/ all)
    IN [s EXCEPT !.thr[t].close_task = IF c1 THEN None ELSE @,
                 !.thr[t].auto_close_task = IF c2 THEN None ELSE @,
                 !.thr[t].late = @ \/ (~all /\ s.cache # t),
                 !.closures = NoClosure]

CancelClosure(s, t, auto_close, all) ==
    LET c1 == s.thr[t].close_task # None /\ (~auto_close \/ all)
        c2 == s.thr[t].auto_close_task # None /\ (auto_close \/ all)
        dead == (IF c1 THEN {s.thr[t].close_task} ELSE {})
                    \cup (IF c2 THEN {s.thr[t].auto_close_task} ELSE {})
        selected(x) == x.th = t /\ (IF x.auto THEN auto_close \/ all
                                              ELSE ~auto_close \/ all)
    IN [s EXCEPT !.thr[t].close_task = IF c1 THEN None ELSE @,
                 !.thr[t].auto_close_task = IF c2 THEN None ELSE @,
                 !.thr[t].late = @ \/ (~all /\ s.cache # t),
                 !.timers = {IF selected(x) THEN [x EXCEPT !.cc = TRUE] ELSE x :
                                x \in {y \in s.timers : y.id \notin dead}},
                 !.closures = NoClosure]

HasClosure(s) == s.closures.by # None

\* ------------------------------------------------------ close() / _close()
\* Each operator runs the code from one point to the next suspension and
\* returns the new state and the frame of the task (pc "ret": returned).

\* _close: the side effects the arguments of the call ask for (the DM to
\* the recipient unless silent, the deletion of the channel), and the
\* awaitables handed to asyncio.gather, except config.update(), whose
\* completion changes nothing here and is part of the return of gather
Requested(k) ==
    (IF ~k.silent THEN {"dm"} ELSE {}) \cup (IF k.del THEN {"delete"} ELSE {})

SideEffects(s, k) ==
    (IF s.thr[k.th].channel # None THEN {"notice"} ELSE {}) \cup Requested(k)

CloseGatherNothing(s, k) ==
    [s |-> s, k |-> [k EXCEPT !.pc = "gather", !.side = {}]]

CloseGather(s, k) ==
    [s |-> s, k |-> [k EXCEPT !.pc = "gather", !.side = SideEffects(s, k)]]

\* _close after its cancel_closure(all=True): post the log if a channel is bound
CloseLog(s, k) ==
    IF s.thr[k.th].channel # None
    THEN [s |-> s, k |-> [k EXCEPT !.pc = "log_wait"]]
    ELSE CloseGather(s, k)

\* _close from its first line: evict the registry entry of R, or return
CloseEntry(s, k) ==
    IF s.cache = None
    THEN [s |-> s, k |-> [k EXCEPT !.pc = "ret"]]
    ELSE LET s1 == [s EXCEPT !.cache = None]
             s2 == CancelClosure(s1, k.th, FALSE, TRUE)
             k1 == [k EXCEPT !.own = TRUE]
         IN IF HasClosure(s1)
            THEN [s |-> s2, k |-> [k1 EXCEPT !.pc = "close_cc_wait"]]
            ELSE CloseLog(s2, k1)

\* close() after its first cancel_closure has returned
CloseBody(s, k) ==
    IF k.after > 0
    THEN [s |-> [s EXCEPT !.closures = [by |-> k.id, time |-> s.now + k.after,
                                        auto |-> k.auto]],
          k |-> [k EXCEPT !.pc = "arm_wait"]]
    ELSE CloseEntry(s, k)

\* close() from its first line.  The sleeping timer of the same kind that
\* the call cancels is noted in the frame (prev) for the history.
CloseBeginNoCancel(s, k) ==
    CloseBody(s, k)

CloseBegin(s, k) ==
    LET s1 == CancelClosure(s, k.th, k.auto, FALSE)
        h == IF k.auto THEN s.thr[k.th].auto_close_task
             ELSE s.thr[k.th].close_task
        k1 == [k EXCEPT !.prev = IF \E x \in s.timers : x.id = h THEN h
                                 ELSE None]
    IN IF HasClosure(s)
       THEN [s |-> s1, k |-> [k1 EXCEPT !.pc = "cc_wait"]]
       ELSE CloseBody(s1, k1)

\* close(): create the _close_after task and store its handle
ArmTimer(s, k) ==
    LET x == [id |-> k.id, th |-> k.th, auto |-> k.auto,
              deadline |-> s.now + k.after, t0 |-> k.t0, after |-> k.after,
              silent |-> k.silent, del |-> k.del,
              prev |-> k.prev, cc |-> FALSE, snd |-> FALSE]
    IN [s EXCEPT !.timers = @ \cup {x},
                 !.thr[k.th].close_task = IF k.auto THEN @ ELSE k.id,
                 !.thr[k.th].auto_close_task = IF k.auto THEN k.id ELSE @]

\* ------------------------------------------------------------------ send()
\* send() from its first line to its first suspension, followed by the
\* first run of the tasks it created, which the loop starts in creation
\* order before any I/O of send() itself can complete:
\*   _restart_close_timer() -> close(after=int(seconds), auto_close=True)
\*   cancel_closure()          when close_task was set at line 1089
\* The manual timers sleeping at the call are marked (snd) and the time of
\* the call is noted (lastSend) for the history.
SendBegin(s, t, period, rid) ==
    LET manual == s.thr[t].close_task # None
        s0 == [s EXCEPT !.timers = {IF x.th = t /\ ~x.auto
                                    THEN [x EXCEPT !.snd = TRUE] ELSE x :
                                    x \in s.timers},
                        !.thr[t].lastSend = s.now]
        kR == [NewTask(rid, "restart", "start", t) EXCEPT
                   !.after = period, !.auto = TRUE, !.t0 = s.now]
        r == CloseBegin(s0, kR)
        s1 == IF period = 0 THEN s0 ELSE r.s
        s2 == IF manual THEN CancelClosure(s1, t, FALSE, FALSE) ELSE s1
    IN [s |-> s2, new |-> IF period = 0 THEN {} ELSE {r.k}]

\* ---------------------------------------------------------------- create()
\* create() from line 1510: a new thread is registered; then either the
\* confirmation prompt is awaited or setup() is spawned and create returns.
\* on_message then calls send(), which waits for the thread to be ready.
SpawnSetup(s, k, t, period) ==
    LET s1 == [s EXCEPT !.createRet = @ \cup {t}]
        b == SendBegin(s1, t, period, k.id + 1)
    IN [s |-> b.s,
        k |-> [k EXCEPT !.pc = "send_wait", !.th = t, !.nested = ""],
        new |-> b.new \cup {NewTask(k.id + 3, "setup", "setup_chan", t)},
        ok |-> TRUE]

CreateNew(s, k, confirm, period) ==
    LET t == Len(s.thr) + 1
        s1 == [s EXCEPT !.thr = Append(@, NewThread(None, FALSE, "create")),
                        !.cache = t]
    IN IF Len(s.thr) >= MaxThreads
       THEN [s |-> s, k |-> k, new |-> {}, ok |-> FALSE]
       ELSE IF confirm
            THEN [s |-> s1,
                  k |-> [k EXCEPT !.pc = "confirm", !.th = t, !.nested = ""],
                  new |-> {}, ok |-> TRUE]
            ELSE SpawnSetup(s1, k, t, period)

\* what the caller of a close() that has just returned does next
Cont(r, confirm, period) ==
    IF r.k.pc # "ret"
    THEN [s |-> r.s, k |-> r.k, new |-> {}, ok |-> TRUE]
    ELSE LET c == r.s.thr[r.k.th].channel
             s1 == IF r.k.after = 0 /\ ~r.k.sched /\ ~r.k.raised
                   THEN [r.s EXCEPT !.closeReturned = @ \cup
                            {[th |-> r.k.th, own |-> r.k.own,
                              pending |-> \E j \in tasks :
                                    j.id # r.k.id /\ j.th = r.k.th
                                        /\ Closing(j),
                              hadLog |-> r.k.hadLog,
                              open |-> c # None /\ logs[c] = "open",
                              undone |-> r.k.undone]}]
                   ELSE r.s
         IN CASE r.k.nested = "create" -> CreateNew(s1, r.k, confirm, period)
              [] r.k.nested = "find" /\ r.k.op = "msg" ->
                    [s |-> s1,
                     k |-> [r.k EXCEPT !.pc = "to_create", !.th = None,
                                       !.nested = ""],
                     new |-> {}, ok |-> TRUE]
              [] r.k.op = "ready" ->
                    \* handle_closures is done; validate_thread_channels
                    [s |-> s1, k |-> [r.k EXCEPT !.pc = "validate"],
                     new |-> {}, ok |-> TRUE]
              [] OTHER ->
                    [s |-> s1, k |-> [r.k EXCEPT !.pc = "done"],
                     new |-> {}, ok |-> TRUE]

\* the frame of a close(closer=bot.user, silent=True, delete_channel=False)
\* that find() or create() runs on a cached thread whose channel is gone
DeadChannelClose(k, where) ==
    [k EXCEPT !.after = 0, !.auto = FALSE, !.silent = TRUE, !.del = FALSE,
              !.own = FALSE, !.hadLog = FALSE, !.undone = {}, !.nested = where]

\* commit the outcome of a step of task k0
FinishState(k0, r) ==
    /\ r.ok
    /\ CommitState(r.s)
    /\ tasks' = (tasks \ {k0}) \cup (IF r.k.pc = "done" THEN {} ELSE {r.k})
                    \cup r.new

Finish(k0, r) == FinishState(k0, r) /\ UNCHANGED rvars

\* some other coroutine is inside close() or _close() of thread t
CloseRunning(k0, t) == \E j \in tasks \ {k0} : InClose(j) /\ j.th = t

ChannelValid(s, t) ==
    s.thr[t].channel # None /\ s.thr[t].channel \in channels

\* ---------------------------------------------------------- initial states
\* no message has been relayed
NoResolution == [via |-> "", id |-> None, either |-> FALSE, res |-> "",
                 entry |-> None, linked |-> None]

RelayIdle ==
    /\ chanHist = {}
    /\ dmHist = {}
    /\ messages = <<>>
    /\ ignored_messages = {}
    /\ deleted_messages = {}
    /\ relays = {}
    /\ nextId = 1
    /\ nrelay = 0
    /\ replies = {}
    /\ resolved = NoResolution
    /\ delEvents = {}

TypeLogs == [c \in 1..MaxThreads |-> "none"]

\* an empty registry: no thread, no channel, no log entry for R
InitFresh ==
    /\ cache = None
    /\ thr = <<>>
    /\ channels = {}
    /\ logs = TypeLogs

\* the state create() and setup() leave behind: one READY thread, bound to
\* its channel, with an open log entry
InitOpen ==
    /\ cache = 1
    /\ thr = <<NewThread(1, TRUE, "create")>>
    /\ channels = {1}
    /\ logs = [TypeLogs EXCEPT ![1] = "open"]

InitState ==
    /\ closures = NoClosure
    /\ timers = {}
    /\ fired = {}
    /\ tasks = {}
    /\ nops = [ev |-> 0, reply |-> 0]
    /\ now = 0
    /\ overlap = FALSE
    /\ closeReturned = {}
    /\ createRet = {}
    /\ persisted = NoPersisted
    /\ started = TRUE

\* no lookup by channel and no channel creation is under way
NoManager == [cache |-> <<>>, topic |-> <<>>, n |-> 0, ops |-> 0]

NoCtc == [pc |-> "idle"]

LookupIdle == manager = NoManager /\ ctc = NoCtc

\* no persistent note is stored for R
InitRest == InitState /\ notes = <<>> /\ LookupIdle

\* ---------------------------------------------------------- gateway events
\* A new event may be handled while the budget lasts
Budget == nops.ev < MaxOps

\* Coroutine identities: the handler of the n-th gateway event is 4n, the
\* _restart_close_timer tasks of its first and second send() are 4n+1 and
\* 4n+2, the setup() task it spawns is 4n+3.  A _close_after task has the
\* identity of the close() call that created it.
NewId == 4 * (nops.ev + 1)

\* find(recipient=R), cache miss: the topic scan over the guild's channels.
\* A channel tagged with R yields a new ModmailThread, cached and READY.
Resurrect(s, c) ==
    [s EXCEPT !.thr = Append(@, NewThread(c, TRUE, "find")),
              !.cache = Len(s.thr) + 1]

\* bot.process_dm_modmail: a DM of the recipient arrives; find(recipient=R)
MsgArrive ==
    /\ Budget
    /\ nops' = [nops EXCEPT !.ev = @ + 1]
    /\ LET k == NewTask(NewId, "msg", "find_wait", cache)
           s0 == Cur
       IN IF cache # None
          THEN /\ Finish(k, [s |-> s0, k |-> k, new |-> {}, ok |-> TRUE])
               /\ UNCHANGED overlap
          ELSE IF channels # {}
               THEN \E c \in channels :
                      /\ Len(thr) < MaxThreads
                      /\ LET s1 == Resurrect(s0, c)
                             b == SendBegin(s1, s1.cache, autoClose, k.id + 1)
                         IN /\ Finish(k, [s |-> b.s,
                                          k |-> [k EXCEPT !.pc = "done",
                                                          !.th = s1.cache],
                                          new |-> b.new, ok |-> TRUE])
                            /\ overlap' = (overlap \/ (autoClose > 0
                                            /\ CloseRunning(k, s1.cache)))
               ELSE /\ Finish(k, [s |-> s0,
                                  k |-> [k EXCEPT !.pc = "to_create"],
                                  new |-> {}, ok |-> TRUE])
                    /\ UNCHANGED overlap
    /\ UNCHANGED <<channels, logs, fired, now, autoClose>>

\* bot.on_raw_reaction_add in the DM channel: the recipient presses the
\* close emoji of the creation notice; find(recipient=R), then close()
ReactionArrive ==
    /\ Budget
    /\ cache # None
    /\ nops' = [nops EXCEPT !.ev = @ + 1]
    /\ LET k == NewTask(NewId, "rclose", "find_wait", cache)
       IN Finish(k, [s |-> Cur, k |-> k,
                     new |-> {}, ok |-> TRUE])
    /\ UNCHANGED <<channels, logs, fired, now, autoClose, overlap>>

\* find(), cache hit: wait_until_ready has returned (the event is set, the
\* thread was cancelled, or the 25 s timeout ran out)
FindWaitDone(k, timeout, confirm) ==
    /\ k.pc = "find_wait"
    /\ thr[k.th].ready \/ thr[k.th].cancelled \/ timeout
    /\ IF thr[k.th].cancelled
       THEN \* CancelledError: find returns the cancelled thread
            /\ Finish(k, [s |-> Cur, k |-> [k EXCEPT !.pc = "done"],
                          new |-> {}, ok |-> TRUE])
            /\ UNCHANGED overlap
       ELSE IF ~ChannelValid(Cur, k.th)
            THEN /\ Finish(k, Cont(CloseBegin(Cur, DeadChannelClose(k, "find")),
                                   confirm, autoClose))
                 /\ overlap' = (overlap \/ CloseRunning(k, k.th))
            ELSE IF k.op = "msg"
                 THEN LET b == SendBegin(Cur, k.th, autoClose, k.id + 1)
                      IN /\ Finish(k, [s |-> b.s,
                                       k |-> [k EXCEPT !.pc = "done"],
                                       new |-> b.new, ok |-> TRUE])
                         /\ overlap' = (overlap \/ (autoClose > 0
                                            /\ CloseRunning(k, k.th)))
                 ELSE /\ Finish(k, Cont(CloseBegin(Cur, [k EXCEPT !.t0 = now]),
                                        confirm, autoClose))
                      /\ overlap' = (overlap \/ CloseRunning(k, k.th))
    /\ UNCHANGED <<channels, logs, fired, nops, now, autoClose>>

\* _find_from_channel for a command typed in channel c: the cached thread of
\* the user id in the topic, else a new ModmailThread, cached and READY
FindChannel(s, c) ==
    IF s.cache # None THEN s ELSE Resurrect(s, c)

\* cogs/modmail.py close, no delay: get_context finds the thread of the
\* channel and the command body calls close(closer=ctx.author)
CmdCloseNow ==
    /\ Budget
    /\ nops' = [nops EXCEPT !.ev = @ + 1]
    /\ \E c \in channels :
         /\ cache = None => Len(thr) < MaxThreads
         /\ LET s1 == FindChannel(Cur, c)
                k == [NewTask(NewId, "close", "start", s1.cache)
                          EXCEPT !.t0 = now]
            IN /\ Finish(k, Cont(CloseBegin(s1, k), FALSE, autoClose))
               /\ overlap' = (overlap \/ CloseRunning(k, s1.cache))
    /\ UNCHANGED <<channels, logs, fired, now, autoClose>>

\* cogs/modmail.py close with a delay: the command posts the "scheduled"
\* notice (send_scheduled_close_message), then calls close(after=d); the
\* model takes the command up at that call
CmdCloseLater ==
    /\ Budget
    /\ cache # None
    /\ channels # {}
    /\ nops' = [nops EXCEPT !.ev = @ + 1]
    /\ \E d \in 1..MaxAfter :
         LET k == [NewTask(NewId, "close", "start", cache)
                       EXCEPT !.after = d, !.t0 = now]
         IN /\ Finish(k, Cont(CloseBegin(Cur, k), FALSE, autoClose))
            /\ overlap' = (overlap \/ CloseRunning(k, cache))
    /\ UNCHANGED <<channels, logs, fired, now, autoClose>>

\* cogs/modmail.py close cancel
CmdCancel ==
    /\ Budget
    /\ cache # None
    /\ channels # {}
    /\ nops' = [nops EXCEPT !.ev = @ + 1]
    /\ LET t == cache
       IN IF thr[t].close_task # None \/ thr[t].auto_close_task # None
          THEN Commit(CancelClosure(Cur, t, FALSE, TRUE))
          ELSE Commit(Cur)
    /\ UNCHANGED <<channels, logs, fired, tasks, now, autoClose, overlap>>

\* cogs/modmail.py reply: ctx.typing() is entered, then thread.reply();
\* the model takes the command up at that call.  reply() runs from its
\* first line to the await of the DM send.  The sleeping manual timer that
\* close_task holds at the call is noted in the frame (m, with its
\* deadline md) for the history.
CmdReply(shared) ==
    /\ Budget
    /\ cache # None
    /\ channels # {}
    /\ nops.reply < MaxReplies
    /\ nops' = [nops EXCEPT !.ev = @ + 1, !.reply = @ + 1]
    /\ LET k == NewTask(NewId, "reply", "start", cache)
       IN IF ~shared
          THEN \* the recipient shares no server: error embed, (None, None)
               /\ Commit(Cur)
               /\ UNCHANGED <<tasks, overlap>>
          ELSE LET held == {x \in timers : x.id = thr[k.th].close_task}
                   m == IF held # {} THEN thr[k.th].close_task ELSE None
                   md == IF held # {} THEN (CHOOSE x \in held : TRUE).deadline
                         ELSE 0
                   b == SendBegin(Cur, k.th, autoClose, k.id + 1)
               IN /\ Finish(k, [s |-> b.s,
                                k |-> [k EXCEPT !.pc = "dm_io", !.m = m,
                                                !.md = md],
                                new |-> b.new, ok |-> TRUE])
                  /\ overlap' = (overlap \/ (autoClose > 0
                                               /\ CloseRunning(k, k.th)))
    /\ UNCHANGED <<channels, logs, fired, now, autoClose>>

\* reply(): the DM send has completed; on success the same message is sent
\* to the thread channel, on failure an error embed is posted instead
ReplyDM(k, delivered) ==
    /\ k.pc = "dm_io"
    /\ IF delivered
       THEN LET b == SendBegin(Cur, k.th, autoClose, k.id + 2)
            IN /\ Finish(k, [s |-> b.s, k |-> [k EXCEPT !.pc = "ch_io"],
                             new |-> b.new, ok |-> TRUE])
               /\ overlap' = (overlap \/ (autoClose > 0
                                            /\ CloseRunning(k, k.th)))
       ELSE /\ Finish(k, [s |-> Cur, k |-> [k EXCEPT !.pc = "done"],
                          new |-> {}, ok |-> TRUE])
            /\ UNCHANGED overlap
    /\ UNCHANGED <<channels, logs, fired, nops, now, autoClose>>

\* reply(): the channel send has completed; a manual close still pending is
\* cancelled, then the log append and the notice are gathered.  The reply
\* has succeeded: the timer noted at its start goes to the history.
ReplyChan(k) ==
    /\ k.pc = "ch_io"
    /\ LET s1 == IF ChannelValid(Cur, k.th) /\ thr[k.th].close_task # None
                 THEN CancelClosure(Cur, k.th, FALSE, FALSE) ELSE Cur
           s2 == IF k.m = None THEN s1
                 ELSE [s1 EXCEPT !.thr[k.th].replied = @ \cup
                            {[m |-> k.m, deadline |-> k.md]}]
       IN Finish(k, [s |-> s2, k |-> [k EXCEPT !.pc = "done"],
                     new |-> {}, ok |-> TRUE])
    /\ UNCHANGED <<channels, logs, fired, nops, now, autoClose, overlap>>

\* ------------------------------------------------------ create() and setup()
\* process_dm_modmail after find() returned None: the cooldown lookup has
\* completed and create(recipient, message=message) is called
CreateStart(k, confirm) ==
    /\ k.pc = "to_create"
    /\ IF cache # None
       THEN Finish(k, [s |-> Cur,
                       k |-> [k EXCEPT !.pc = "create_wait", !.th = cache],
                       new |-> {}, ok |-> TRUE])
       ELSE Finish(k, CreateNew(Cur, k, confirm, autoClose))
    /\ UNCHANGED <<channels, logs, fired, nops, now, autoClose, overlap>>

\* create(), existing entry: wait_until_ready has returned
CreateWaitDone(k, timeout, confirm) ==
    /\ k.pc = "create_wait"
    /\ thr[k.th].ready \/ thr[k.th].cancelled \/ timeout
    /\ IF thr[k.th].cancelled
       THEN \* CancelledError: "abort creating", the cancelled thread is returned
            /\ Finish(k, [s |-> [Cur EXCEPT !.createRet = @ \cup {k.th}],
                          k |-> [k EXCEPT !.pc = "done"],
                          new |-> {}, ok |-> TRUE])
            /\ UNCHANGED overlap
       ELSE IF ChannelValid(Cur, k.th)
            THEN \* "Found an existing thread": returned, then send(message)
                 LET b == SendBegin([Cur EXCEPT !.createRet = @ \cup {k.th}],
                                    k.th, autoClose, k.id + 1)
                 IN /\ Finish(k, [s |-> b.s,
                                  k |-> [k EXCEPT !.pc = IF thr[k.th].ready
                                                         THEN "done"
                                                         ELSE "send_wait"],
                                  new |-> b.new, ok |-> TRUE])
                    /\ overlap' = (overlap \/ (autoClose > 0
                                            /\ CloseRunning(k, k.th)))
            ELSE \* "closing previous thread", then a new thread is created
                 /\ Finish(k, Cont(CloseBegin(Cur, DeadChannelClose(k, "create")),
                                   confirm, autoClose))
                 /\ overlap' = (overlap \/ CloseRunning(k, k.th))
    /\ UNCHANGED <<channels, logs, fired, nops, now, autoClose>>

\* create(): the confirmation view has finished
ConfirmDone(k, accept) ==
    /\ k.pc = "confirm"
    /\ IF accept
       THEN Finish(k, SpawnSetup(Cur, k, k.th, autoClose))
       ELSE \* cancelled = True, del self.cache[recipient.id] (KeyError when
            \* the entry is gone), the cancelled thread is returned
            LET s1 == [Cur EXCEPT !.thr[k.th].cancelled = TRUE]
            IN IF cache = None
               THEN Finish(k, [s |-> s1, k |-> [k EXCEPT !.pc = "done"],
                               new |-> {}, ok |-> TRUE])
               ELSE Finish(k, [s |-> [s1 EXCEPT !.cache = None,
                                                !.createRet = @ \cup {k.th}],
                               k |-> [k EXCEPT !.pc = "done"],
                               new |-> {}, ok |-> TRUE])
    /\ UNCHANGED <<channels, logs, fired, nops, now, autoClose, overlap>>

\* setup() keeping the registry entry when the channel cannot be created
SetupChanKeepsEntry(k, created) ==
    /\ k.pc = "setup_chan"
    /\ IF created
       THEN /\ channels' = channels \cup {k.th}
            /\ Finish(k, [s |-> [Cur EXCEPT !.thr[k.th].channel = k.th],
                          k |-> [k EXCEPT !.pc = "setup_log"],
                          new |-> {}, ok |-> TRUE])
       ELSE /\ channels' = channels
            /\ Finish(k, [s |-> [Cur EXCEPT !.thr[k.th].failed = TRUE],
                          k |-> [k EXCEPT !.pc = "done"],
                          new |-> {}, ok |-> TRUE])
    /\ UNCHANGED <<logs, fired, nops, now, autoClose, overlap>>

\* setup(): create_thread_channel has completed.  On success the channel is
\* bound; on HTTPException the registry entry of R is popped and setup ends
SetupChan(k, created) ==
    /\ k.pc = "setup_chan"
    /\ IF created
       THEN /\ channels' = channels \cup {k.th}
            /\ Finish(k, [s |-> [Cur EXCEPT !.thr[k.th].channel = k.th],
                          k |-> [k EXCEPT !.pc = "setup_log"],
                          new |-> {}, ok |-> TRUE])
       ELSE /\ channels' = channels
            /\ Finish(k, [s |-> [Cur EXCEPT !.cache = None,
                                            !.thr[k.th].failed = TRUE],
                          k |-> [k EXCEPT !.pc = "done"],
                          new |-> {}, ok |-> TRUE])
    /\ UNCHANGED <<logs, fired, nops, now, autoClose, overlap>>

\* setup() giving the thread up when create_log_entry fails, as it does
\* when the channel cannot be created
SetupLogGivesUp(k, stored) ==
    /\ k.pc = "setup_log"
    /\ logs' = IF stored THEN [logs EXCEPT ![thr[k.th].channel] = "open"]
               ELSE logs
    /\ Finish(k, [s |-> IF stored
                        THEN [Cur EXCEPT !.thr[k.th].ready = TRUE,
                                         !.thr[k.th].thread_create = @ + 1]
                        ELSE [Cur EXCEPT !.cache = None,
                                         !.thr[k.th].failed = TRUE],
                  k |-> [k EXCEPT !.pc = "done"], new |-> {}, ok |-> TRUE])
    /\ UNCHANGED <<channels, fired, nops, now, autoClose, overlap>>

\* setup(): create_log_entry has completed or failed; ready = True
SetupLog(k, stored) ==
    /\ k.pc = "setup_log"
    /\ logs' = IF stored THEN [logs EXCEPT ![thr[k.th].channel] = "open"]
               ELSE logs
    /\ Finish(k, [s |-> [Cur EXCEPT !.thr[k.th].ready = TRUE,
                                    !.thr[k.th].thread_create = @ + 1],
                  k |-> [k EXCEPT !.pc = "done"], new |-> {}, ok |-> TRUE])
    /\ UNCHANGED <<channels, fired, nops, now, autoClose, overlap>>

\* send(): wait_until_ready has returned; the message is delivered when the
\* thread is ready and dropped otherwise; the I/O that follows changes
\* nothing that is modelled
SendWaitDone(k, timeout) ==
    /\ k.pc = "send_wait"
    /\ thr[k.th].ready \/ thr[k.th].cancelled \/ timeout
    /\ Finish(k, [s |-> Cur,
                  k |-> [k EXCEPT !.pc = "done"],
                  new |-> {}, ok |-> TRUE])
    /\ UNCHANGED <<channels, logs, fired, nops, now, autoClose, overlap>>

\* ------------------------------------------------- close(): resumed steps
\* close(): config.update() inside the first cancel_closure has completed
CCWaitDone(k, confirm) ==
    /\ k.pc = "cc_wait"
    /\ Finish(k, Cont(CloseBody(Cur, k), confirm, autoClose))
    /\ UNCHANGED <<channels, logs, fired, nops, now, autoClose, overlap>>

\* close(after>0): config.update() has completed; the timer is armed
ArmWaitDone(k) ==
    /\ k.pc = "arm_wait"
    /\ Finish(k, [s |-> ArmTimer(Cur, k),
                  k |-> [k EXCEPT !.pc = IF k.op = "ready" THEN "validate"
                                         ELSE "done"],
                  new |-> {}, ok |-> TRUE])
    /\ UNCHANGED <<channels, logs, fired, nops, now, autoClose, overlap>>

\* _close(): config.update() inside cancel_closure(all=True) has completed
CloseCCWaitDone(k) ==
    /\ k.pc = "close_cc_wait"
    /\ Finish(k, Cont(CloseLog(Cur, k), FALSE, autoClose))
    /\ UNCHANGED <<channels, logs, fired, nops, now, autoClose, overlap>>

\* _close() of a fired timer cancelled at its await of post_log by a
\* cancel_closure() that came after the timer fired
PostLogDoneCancellable(k) ==
    /\ k.pc = "log_wait"
    /\ LET c == thr[k.th].channel
           had == logs[c] # "none"
           stop == k.sched /\ thr[k.th].late
           s1 == IF had /\ ~stop THEN [Cur EXCEPT !.thr[k.th].nfinal = @ + 1]
                 ELSE Cur
       IN /\ logs' = IF had /\ ~stop THEN [logs EXCEPT ![c] = "closed"] ELSE logs
          /\ IF stop
             THEN Finish(k, [s |-> s1, k |-> [k EXCEPT !.pc = "done"],
                             new |-> {}, ok |-> TRUE])
             ELSE Finish(k, Cont(CloseGather(s1, [k EXCEPT !.hadLog = had]),
                                 FALSE, autoClose))
    /\ UNCHANGED <<channels, fired, nops, now, autoClose, overlap>>

\* _close(): post_log has completed.  find_one_and_update sets open=False
\* on the entry of the channel, or returns None when there is none
PostLogDone(k) ==
    /\ k.pc = "log_wait"
    /\ LET c == thr[k.th].channel
           had == logs[c] # "none"
           s1 == IF had THEN [Cur EXCEPT !.thr[k.th].nfinal = @ + 1] ELSE Cur
       IN /\ logs' = IF had THEN [logs EXCEPT ![c] = "closed"] ELSE logs
          /\ Finish(k, Cont(CloseGather(s1, [k EXCEPT !.hadLog = had]),
                            FALSE, autoClose))
    /\ UNCHANGED <<channels, fired, nops, now, autoClose, overlap>>

\* _close(): the gathered awaitables have completed (the embed in the log
\* channel, the DM to the recipient, channel.delete()); gather
\* returns, or raises when the channel was already gone; close returns
CloseReturn(k, confirm) ==
    /\ k.pc = "gather"
    /\ LET c == thr[k.th].channel
           gone == "delete" \in k.side /\ c \notin channels
           s1 == IF "notice" \in k.side
                 THEN [Cur EXCEPT !.thr[k.th].nnotice = @ + 1] ELSE Cur
       IN /\ channels' = IF "delete" \in k.side THEN channels \ {c}
                         ELSE channels
          /\ Finish(k, Cont([s |-> s1,
                             k |-> [k EXCEPT !.pc = "ret", !.raised = gone,
                                             !.undone = Requested(k) \ k.side]],
                            confirm, autoClose))
    /\ UNCHANGED <<logs, fired, nops, now, autoClose, overlap>>

\* _close(): what a failing awaitable of the gather raises.  Only the
\* DiscordForbidden of the DM to the recipient is caught (send_to_recipient).
Raises(f) == f # "dm_forbidden"

Awaitable(f) == IF f \in {"dm_forbidden", "dm_http"} THEN "dm" ELSE f

\* _close(): one of the gathered awaitables fails (config.update(), the
\* embed in the log channel, the DM to the recipient, channel.delete()).
\* asyncio.gather has started them all and does not cancel the others, so
\* they are carried out; the exception, unless caught, leaves gather, _close
\* and close(), and the coroutine that called close() ends with it.  The
\* outcome goes to the history of the thread (effects).
CloseGatherFails(k, f, confirm) ==
    /\ k.pc = "gather"
    /\ Awaitable(f) \in k.side \cup {"config"}
    /\ LET c == thr[k.th].channel
           asked == k.side \cup {"config"}
           done == asked \ {Awaitable(f)}
           gone == "delete" \in done /\ c \notin channels
           raised == Raises(f) \/ gone
           s1 == [Cur EXCEPT
                     !.thr[k.th].nnotice = IF "notice" \in done THEN @ + 1
                                           ELSE @,
                     !.thr[k.th].effects = @ \cup
                         {[id |-> k.id, asked |-> asked, failed |-> f,
                           done |-> done, raised |-> raised]}]
           k1 == [k EXCEPT !.pc = "ret", !.raised = raised,
                           !.undone = Requested(k) \ done]
       IN /\ channels' = IF "delete" \in done THEN channels \ {c}
                         ELSE channels
          /\ IF raised
             THEN Finish(k, [s |-> s1, k |-> [k1 EXCEPT !.pc = "done"],
                             new |-> {}, ok |-> TRUE])
             ELSE Finish(k, Cont([s |-> s1, k |-> k1], confirm, autoClose))
    /\ UNCHANGED <<logs, fired, nops, now, autoClose, overlap>>

\* ------------------------------------------------------------------ timers
\* asyncio.sleep(after) of _close_after has elapsed
SleepElapsedAlways(x) == TRUE

SleepElapsed(x) == now >= x.deadline

\* _close_after: the sleep is over; the _close(..., scheduled=True) task it
\* creates is the next callback the loop runs, so its first segment (up to
\* the first await that suspends) belongs to the same step
TimerFire(x) ==
    /\ x \in timers
    /\ SleepElapsed(x)
    /\ fired' = fired \cup {[id |-> x.id, th |-> x.th, auto |-> x.auto,
                             cc |-> x.cc, snd |-> x.snd,
                             evicted |-> cache # None,
                             early |-> now < x.t0 + x.after]}
    /\ LET k == [NewTask(x.id, "fire", "entry", x.th) EXCEPT
                     !.silent = x.silent, !.del = x.del, !.sched = TRUE,
                     !.t0 = x.t0]
           s1 == [Cur EXCEPT !.timers = @ \ {x}]
       IN /\ Finish(k, Cont(CloseEntry(s1, k), FALSE, autoClose))
          /\ overlap' = (overlap \/ CloseRunning(k, x.th))
    /\ UNCHANGED <<channels, logs, nops, now, autoClose>>

\* One second passes.  The delays of the timers are whole seconds
\* (int(seconds)); the clock of the model advances between bursts of I/O,
\* when no coroutine is in flight, and only while a timer is sleeping.
Tick ==
    /\ now < MaxTime
    /\ timers # {}
    /\ tasks = {}
    /\ now' = now + 1
    /\ UNCHANGED <<cache, thr, channels, logs, closures, timers, fired, tasks,
                   nops, autoClose, overlap, closeReturned, createRet,
                   persisted, started, notes, manager, ctc, rvars>>

\* ---------------------------------------------------------------- start-up
\* on_ready of a new process: populate_cache(), handle_closures(),
\* validate_thread_channels().  The registry is empty, no timer sleeps; the
\* guild, the Log Store and the configuration document are as the previous
\* process left them.
ReadyId == 1    \* the on_ready coroutine
BootId == 2     \* the close() call that stored the PendingClosure loaded

\* handle_closures: the delay left until the persisted fire time
RemainingFromZero(s, time) ==
    IF time <= 0 THEN 0 ELSE time

Remaining(s, time) ==
    IF time - s.now <= 0 THEN 0 ELSE time - s.now

\* populate_cache: _find_from_channel for every text channel of the guild
PopulateCache(k) ==
    /\ k.pc = "populate"
    /\ \/ /\ channels = {}
          /\ Finish(k, [s |-> Cur, k |-> [k EXCEPT !.pc = "closures"],
                        new |-> {}, ok |-> TRUE])
       \/ \E c \in channels :
             /\ cache = None => Len(thr) < MaxThreads
             /\ Finish(k, [s |-> FindChannel(Cur, c),
                           k |-> [k EXCEPT !.pc = "closures"],
                           new |-> {}, ok |-> TRUE])
    /\ UNCHANGED <<channels, logs, fired, nops, now, autoClose, overlap>>

\* handle_closures for the record of R: the remaining delay is computed,
\* find(recipient_id=R) is called, then close() with the persisted
\* arguments; without a thread the record is popped.  The thread found was
\* registered by populate_cache (READY, its channel in the guild), so
\* wait_until_ready and the channel test of find() pass through.
HandleClosures(k) ==
    /\ k.pc = "closures"
    /\ IF ~HasClosure(Cur)
       THEN /\ Finish(k, [s |-> Cur, k |-> [k EXCEPT !.pc = "validate"],
                          new |-> {}, ok |-> TRUE])
            /\ UNCHANGED overlap
       ELSE IF cache = None
            THEN /\ Finish(k, [s |-> [Cur EXCEPT !.closures = NoClosure],
                               k |-> [k EXCEPT !.pc = "validate"],
                               new |-> {}, ok |-> TRUE])
                 /\ UNCHANGED overlap
            ELSE LET k1 == [k EXCEPT !.th = cache,
                                     !.after = Remaining(Cur, closures.time),
                                     !.auto = closures.auto,
                                     !.silent = persisted.silent,
                                     !.del = persisted.del,
                                     !.t0 = now]
                 IN /\ Finish(k, Cont(CloseBegin(Cur, k1), FALSE, autoClose))
                    /\ overlap' = (overlap \/ CloseRunning(k, cache))
    /\ UNCHANGED <<channels, logs, fired, nops, now, autoClose>>

\* validate_thread_channels: get_open_logs() has returned
ValidateStart(k) ==
    /\ k.pc = "validate"
    /\ Finish(k, [s |-> Cur,
                  k |-> [k EXCEPT !.pc = "validate_loop",
                                  !.open = {c \in DOMAIN logs :
                                                logs[c] = "open"}],
                  new |-> {}, ok |-> TRUE])
    /\ UNCHANGED <<channels, logs, fired, nops, now, autoClose, overlap>>

\* validate_thread_channels skips the post_log of a missing channel
ValidateLogSkips(k, c) ==
    /\ k.pc = "validate_loop"
    /\ c \in k.open
    /\ logs' = logs
    /\ Finish(k, [s |-> Cur, k |-> [k EXCEPT !.open = @ \ {c}],
                  new |-> {}, ok |-> TRUE])
    /\ UNCHANGED <<channels, fired, nops, now, autoClose, overlap>>

\* validate_thread_channels, one open log entry: when its channel is not in
\* the guild, post_log closes the entry with the bot user as closer;
\* otherwise the entry is left alone (skip_repair)
ValidateLog(k, c) ==
    /\ k.pc = "validate_loop"
    /\ c \in k.open
    /\ logs' = IF c \notin channels THEN [logs EXCEPT ![c] = "synthetic"]
               ELSE logs
    /\ Finish(k, [s |-> Cur, k |-> [k EXCEPT !.open = @ \ {c}],
                  new |-> {}, ok |-> TRUE])
    /\ UNCHANGED <<channels, fired, nops, now, autoClose, overlap>>

\* on_ready: the loop over the open logs is over; _started = True
ReadyDone(k) ==
    /\ k.pc = "validate_loop"
    /\ k.open = {}
    /\ tasks' = tasks \ {k}
    /\ started' = TRUE
    /\ UNCHANGED <<cache, thr, channels, logs, closures, timers, fired, nops,
                   now, autoClose, overlap, closeReturned, createRet,
                   persisted, notes, manager, ctc, rvars>>

\* ------------------------------------------------------------ message relay
\* A channel is the set of its messages; `newer` counts the messages posted
\* to the same channel after this one.  Staff-channel messages have a kind:
\* "relay" (an embed relaying a thread message), "note", "info" (an error or
\* confirmation embed) are the bot's, "staff" is a plain message of a member.
HistoryLimit == 100

NoMsg == [id |-> None, kind |-> "", bot |-> FALSE, newer |-> 0, by |-> None]

NoEntry == [message_id |-> None, linked_ids |-> <<>>, mod |-> FALSE,
            type |-> "", by |-> None]

ChanMsg(id, kind, by) ==
    [id |-> id, kind |-> kind, bot |-> kind # "staff", newer |-> 0, by |-> by]

DMMsg(id, bot, by) ==
    [id |-> id, kind |-> "dm", bot |-> bot, newer |-> 0, by |-> by]

Entry(id, linked, mod, type, by) ==
    [message_id |-> id, linked_ids |-> linked, mod |-> mod, type |-> type,
     by |-> by]

Range(f) == {f[i] : i \in DOMAIN f}

Ids(h) == {m.id : m \in h}

MsgOf(h, id) == CHOOSE m \in h : m.id = id

\* channel.send(): the new message is the newest of its channel.
Post(h, m) == {[x EXCEPT !.newer = @ + 1] : x \in h} \cup {m}

\* message.delete()
Remove(h, id) ==
    IF id \notin Ids(h) THEN h
    ELSE LET m == MsgOf(h, id)
         IN  {[x EXCEPT !.newer = IF @ > m.newer THEN @ - 1 ELSE @] :
                  x \in h \ {m}}

\* channel.history(): the newest HistoryLimit messages, newest first.
History(h) == {m \in h : m.newer < HistoryLimit}

\* _get_message_log_raw(): the first logged message whose message_id or
\* linked_ids holds the id.
Matching(id) ==
    {i \in DOMAIN messages :
        \/ messages[i].message_id = id
        \/ \E j \in DOMAIN messages[i].linked_ids :
               messages[i].linked_ids[j] = id}

GetMessagePayload(id) ==
    IF Matching(id) = {} THEN NoEntry
    ELSE messages[CHOOSE i \in Matching(id) : \A j \in Matching(id) : i <= j]

\* ThreadMessage.find_linked_message(): the id of the newest message of the
\* channel's history whose id is one of the linked ids.
FindLinkedMessage(h, e) ==
    LET c == {m \in History(h) :
                 \E j \in DOMAIN e.linked_ids : e.linked_ids[j] = m.id}
    IN  IF e.type = "system" \/ e.linked_ids = <<>> THEN None
        ELSE IF c = {} THEN None
        ELSE (CHOOSE m \in c : \A x \in c : m.newer <= x.newer).id

Outcome(res, e, linked, ign) ==
    [res |-> res, e |-> e, linked |-> linked, ign |-> ign]

NotFound == {"ThreadMessageNotFound", "DMMessageNotFound"}

\* find_message_payload() without its counterpart check.
FindMessagePayloadUnlinked(m, either, note) ==
    LET e == GetMessagePayload(m.id)
        l == FindLinkedMessage(dmHist, e)
        none == ignored_messages
        more == ignored_messages \cup {m.id}
    IN  IF m.id \in ignored_messages
            THEN Outcome("IgnoredMessage", NoEntry, None, none)
        ELSE IF ~m.bot
            THEN Outcome("MalformedThreadMessage", NoEntry, None, more)
        ELSE IF e = NoEntry
            THEN Outcome("IgnoredMessage", NoEntry, None, more)
        ELSE IF e.linked_ids # <<>> /\ ~e.mod /\ ~either
            THEN Outcome("ThreadMessageNotFound", NoEntry, None, none)
        ELSE IF e.type = "system" /\ ~note
            THEN Outcome("DMMessageNotFound", NoEntry, None, none)
        ELSE Outcome("ok", e, l, none)

\* find_message_payload(message): the payload of a staff-channel message
\* and its counterpart in the recipient's DM channel.
FindMessagePayload(m, either, note) ==
    LET e == GetMessagePayload(m.id)
        l == FindLinkedMessage(dmHist, e)
        none == ignored_messages
        more == ignored_messages \cup {m.id}
    IN  IF m.id \in ignored_messages
            THEN Outcome("IgnoredMessage", NoEntry, None, none)
        ELSE IF ~m.bot
            THEN Outcome("MalformedThreadMessage", NoEntry, None, more)
        ELSE IF e = NoEntry
            THEN Outcome("IgnoredMessage", NoEntry, None, more)
        ELSE IF e.linked_ids # <<>> /\ ~e.mod /\ ~either
            THEN Outcome("ThreadMessageNotFound", NoEntry, None, none)
        ELSE IF e.linked_ids # <<>> /\ l = None
            THEN Outcome("DMMessageNotFound", NoEntry, None, none)
        ELSE IF e.type = "system" /\ ~note
            THEN Outcome("DMMessageNotFound", NoEntry, None, none)
        ELSE Outcome("ok", e, l, none)

\* find_message_payload(message_id): the message is fetched first.
FetchMessagePayload(id, either, note) ==
    IF id \notin Ids(chanHist)
        THEN Outcome("ThreadMessageNotFound", NoEntry, None, ignored_messages)
        ELSE FindMessagePayload(MsgOf(chanHist, id), either, note)

\* find_dm_message_payload() refusing every message when either_direction
\* is not set.
FindDMMessagePayloadStrict(m, either, deleted) ==
    LET e == GetMessagePayload(m.id)
        l == FindLinkedMessage(chanHist, e)
        none == ignored_messages
    IN  IF ~either
            THEN Outcome("ThreadMessageNotFound", NoEntry, None, none)
        ELSE IF m.id \in ignored_messages
            THEN Outcome("IgnoredMessage", NoEntry, None,
                         IF deleted THEN none \ {m.id} ELSE none)
        ELSE IF e = NoEntry
            THEN Outcome("LinkMessageError", NoEntry, None, none)
        ELSE IF e.linked_ids # <<>>
            THEN IF l # None THEN Outcome("ok", e, l, none)
                 ELSE Outcome("ThreadMessageNotFound", NoEntry, None, none)
        ELSE Outcome("IgnoredMessage", NoEntry, None, none \cup {m.id})

\* find_dm_message_payload(message): the payload of a message of the
\* recipient's DM channel and its counterpart in the staff channel.
FindDMMessagePayload(m, either, deleted) ==
    LET e == GetMessagePayload(m.id)
        l == FindLinkedMessage(chanHist, e)
        none == ignored_messages
    IN  IF ~either /\ m.bot
            THEN Outcome("ThreadMessageNotFound", NoEntry, None, none)
        ELSE IF m.id \in ignored_messages
            THEN Outcome("IgnoredMessage", NoEntry, None,
                         IF deleted THEN none \ {m.id} ELSE none)
        ELSE IF e = NoEntry
            THEN Outcome("LinkMessageError", NoEntry, None, none)
        ELSE IF e.linked_ids # <<>>
            THEN IF l # None THEN Outcome("ok", e, l, none)
                 ELSE Outcome("ThreadMessageNotFound", NoEntry, None, none)
        ELSE Outcome("IgnoredMessage", NoEntry, None, none \cup {m.id})

\* A relay task: `a` is the staff-channel message it works on, `b` the DM
\* message, `entry` the log entry it is about to append, `todo` the deletes
\* it still awaits, `m` the deleted message an event reports and `cmd`
\* whether that delete was the delete command's own.
RelayTask(id, op, pc) ==
    [id |-> id, op |-> op, pc |-> pc, a |-> None, b |-> None,
     entry |-> NoEntry, todo |-> {}, m |-> NoMsg, cmd |-> FALSE]

RelayEvent == nrelay < MaxRelayOps /\ nrelay' = nrelay + 1

\* api.append_log() resumed: the entry is pushed to the log document.
AppendDone(k) ==
    /\ k.pc = "append"
    /\ messages' = Append(messages, k.entry)
    /\ relays' = relays \ {k}
    /\ UNCHANGED <<chanHist, dmHist, ignored_messages, deleted_messages,
                   nextId, nrelay, replies, resolved, delEvents>>
    /\ UNCHANGED lvars

\* on_message in a DM: the recipient's message reaches process_dm_modmail and
\* thread.send(message).
RecipientDM ==
    /\ RelayEvent
    /\ dmHist' = Post(dmHist, DMMsg(nextId, FALSE, nrelay + 1))
    /\ nextId' = nextId + 1
    /\ relays' = relays \cup
           {[RelayTask(nrelay + 1, "send", "send") EXCEPT !.b = nextId]}
    /\ UNCHANGED <<chanHist, messages, ignored_messages, deleted_messages,
                   replies, resolved, delEvents>>
    /\ UNCHANGED lvars

\* send() appending the log entry although the staff channel refused the
\* embed.
RecipientDMSentLogsUnsent(k, ok) ==
    /\ k.op = "send" /\ k.pc = "send"
    /\ IF ok
       THEN /\ chanHist' = Post(chanHist, ChanMsg(nextId, "relay", k.id))
            /\ nextId' = nextId + 1
       ELSE UNCHANGED <<chanHist, nextId>>
    /\ relays' = (relays \ {k}) \cup
           {[k EXCEPT !.pc = "append", !.a = nextId,
                      !.entry = Entry(k.b, <<nextId, k.b>>, FALSE,
                                      "thread_message", k.id)]}
    /\ UNCHANGED <<dmHist, messages, ignored_messages, deleted_messages,
                   nrelay, replies, resolved, delEvents>>
    /\ UNCHANGED lvars

\* send() resumed after destination.send(): the embed is in the staff
\* channel and the append of its log entry is spawned, or the send raised.
RecipientDMSent(k, ok) ==
    /\ k.op = "send" /\ k.pc = "send"
    /\ IF ok
       THEN /\ chanHist' = Post(chanHist, ChanMsg(nextId, "relay", k.id))
            /\ nextId' = nextId + 1
            /\ relays' = (relays \ {k}) \cup
                   {[k EXCEPT !.pc = "append", !.a = nextId,
                              !.entry = Entry(k.b, <<nextId, k.b>>, FALSE,
                                              "thread_message", k.id)]}
       ELSE /\ relays' = relays \ {k}
            /\ UNCHANGED <<chanHist, nextId>>
    /\ UNCHANGED <<dmHist, messages, ignored_messages, deleted_messages,
                   nrelay, replies, resolved, delEvents>>
    /\ UNCHANGED lvars

ReplyRecord(k, raised, appended, err) ==
    [id |-> k.id, dm |-> k.b, ch |-> k.a, raised |-> raised,
     appended |-> appended, err |-> err, entry |-> k.entry]

\* A command of a staff member is a message of the staff channel.
Command(h, n) == Post(h, ChanMsg(nextId, "staff", n))

\* The reply command, reply(): without a server shared with the recipient
\* the error embed is sent and (None, None) returned; otherwise the DM send
\* is awaited.
RelayReply(shared) ==
    /\ RelayEvent
    /\ IF shared
       THEN /\ chanHist' = Command(chanHist, nrelay + 1)
            /\ nextId' = nextId + 1
            /\ relays' = relays \cup {RelayTask(nrelay + 1, "reply", "reply_dm")}
            /\ UNCHANGED replies
       ELSE /\ chanHist' = Post(Command(chanHist, nrelay + 1),
                                ChanMsg(nextId + 1, "info", nrelay + 1))
            /\ nextId' = nextId + 2
            /\ replies' = replies \cup
                   {ReplyRecord(RelayTask(nrelay + 1, "reply", "done"),
                                FALSE, FALSE, nextId + 1)}
            /\ UNCHANGED relays
    /\ UNCHANGED <<dmHist, messages, ignored_messages, deleted_messages,
                   resolved, delEvents>>
    /\ UNCHANGED lvars

\* reply() relaying to the staff channel although the DM send failed.
RelayReplyDMRelaysAnyway(k, delivered) ==
    /\ k.op = "reply" /\ k.pc = "reply_dm"
    /\ IF delivered
       THEN /\ dmHist' = Post(dmHist, DMMsg(nextId, TRUE, k.id))
            /\ relays' = (relays \ {k}) \cup
                   {[k EXCEPT !.pc = "reply_ch", !.b = nextId]}
       ELSE /\ relays' = (relays \ {k}) \cup {[k EXCEPT !.pc = "reply_ch"]}
            /\ UNCHANGED dmHist
    /\ nextId' = IF delivered THEN nextId + 1 ELSE nextId
    /\ UNCHANGED <<chanHist, replies>>
    /\ UNCHANGED <<messages, ignored_messages, deleted_messages, nrelay,
                   resolved, delEvents>>
    /\ UNCHANGED lvars

\* reply() resumed after the DM send: delivered, the staff-channel send is
\* awaited next; failed, the error embed is sent and (None, None) returned.
RelayReplyDM(k, delivered) ==
    /\ k.op = "reply" /\ k.pc = "reply_dm"
    /\ IF delivered
       THEN /\ dmHist' = Post(dmHist, DMMsg(nextId, TRUE, k.id))
            /\ relays' = (relays \ {k}) \cup
                   {[k EXCEPT !.pc = "reply_ch", !.b = nextId]}
            /\ UNCHANGED <<chanHist, replies>>
       ELSE /\ chanHist' = Post(chanHist, ChanMsg(nextId, "info", k.id))
            /\ replies' = replies \cup {ReplyRecord(k, FALSE, FALSE, nextId)}
            /\ relays' = relays \ {k}
            /\ UNCHANGED dmHist
    /\ nextId' = nextId + 1
    /\ UNCHANGED <<messages, ignored_messages, deleted_messages, nrelay,
                   resolved, delEvents>>
    /\ UNCHANGED lvars

\* reply() spawning the append of the log entry instead of awaiting it.
RelayReplyChanSpawns(k, ok) ==
    /\ k.op = "reply" /\ k.pc = "reply_ch"
    /\ IF ok
       THEN LET k1 == [k EXCEPT !.pc = "append", !.a = nextId,
                                !.entry = Entry(nextId, <<nextId, k.b>>, TRUE,
                                                "thread_message", k.id)]
            IN  /\ chanHist' = Post(chanHist, ChanMsg(nextId, "relay", k.id))
                /\ nextId' = nextId + 1
                /\ relays' = (relays \ {k}) \cup {k1}
                /\ replies' = replies \cup {ReplyRecord(k1, FALSE, FALSE, None)}
       ELSE /\ replies' = replies \cup {ReplyRecord(k, TRUE, FALSE, None)}
            /\ relays' = relays \ {k}
            /\ UNCHANGED <<chanHist, nextId>>
    /\ UNCHANGED <<dmHist, messages, ignored_messages, deleted_messages,
                   nrelay, resolved, delEvents>>
    /\ UNCHANGED lvars

\* reply() resumed after the staff-channel send: sent, the append of the log
\* entry joins the awaited tasks; failed, the exception leaves reply().
RelayReplyChan(k, ok) ==
    /\ k.op = "reply" /\ k.pc = "reply_ch"
    /\ IF ok
       THEN /\ chanHist' = Post(chanHist, ChanMsg(nextId, "relay", k.id))
            /\ nextId' = nextId + 1
            /\ relays' = (relays \ {k}) \cup
                   {[k EXCEPT !.pc = "reply_log", !.a = nextId,
                              !.entry = Entry(nextId, <<nextId, k.b>>, TRUE,
                                              "thread_message", k.id)]}
            /\ UNCHANGED replies
       ELSE /\ replies' = replies \cup {ReplyRecord(k, TRUE, FALSE, None)}
            /\ relays' = relays \ {k}
            /\ UNCHANGED <<chanHist, nextId>>
    /\ UNCHANGED <<dmHist, messages, ignored_messages, deleted_messages,
                   nrelay, resolved, delEvents>>
    /\ UNCHANGED lvars

\* reply() resumed after asyncio.gather(): the entry is in the log and
\* (user_msg, msg) is returned.
RelayReplyLogged(k) ==
    /\ k.op = "reply" /\ k.pc = "reply_log"
    /\ messages' = Append(messages, k.entry)
    /\ replies' = replies \cup
           {ReplyRecord(k, FALSE, \E i \in DOMAIN messages' :
                                      messages'[i] = k.entry, None)}
    /\ relays' = relays \ {k}
    /\ UNCHANGED <<chanHist, dmHist, ignored_messages, deleted_messages,
                   nextId, nrelay, resolved, delEvents>>
    /\ UNCHANGED lvars

\* The note command, note(): the note is sent to the staff channel.
RelayNote ==
    /\ RelayEvent
    /\ chanHist' = Command(chanHist, nrelay + 1)
    /\ nextId' = nextId + 1
    /\ relays' = relays \cup {RelayTask(nrelay + 1, "note", "note_send")}
    /\ UNCHANGED <<dmHist, messages, ignored_messages,
                   deleted_messages, replies, resolved, delEvents>>
    /\ UNCHANGED lvars

\* note() resumed after the send: the append of its system entry is spawned.
NoteSent(k, ok) ==
    /\ k.op = "note" /\ k.pc = "note_send"
    /\ IF ok
       THEN /\ chanHist' = Post(chanHist, ChanMsg(nextId, "note", k.id))
            /\ nextId' = nextId + 1
            /\ relays' = (relays \ {k}) \cup
                   {[k EXCEPT !.pc = "append", !.a = nextId,
                              !.entry = Entry(nextId, <<>>, TRUE, "system",
                                              k.id)]}
       ELSE /\ relays' = relays \ {k}
            /\ UNCHANGED <<chanHist, nextId>>
    /\ UNCHANGED <<dmHist, messages, ignored_messages, deleted_messages,
                   nrelay, replies, resolved, delEvents>>
    /\ UNCHANGED lvars

Resolution(via, id, either, o) ==
    [via |-> via, id |-> id, either |-> either, res |-> o.res,
     entry |-> o.e, linked |-> o.linked]

\* The callers of the two resolvers that only look a message up: a reaction
\* on a staff-channel message or on a DM message (handle_reaction_events),
\* the edit command (edit_message) and the recipient's edit of a message of
\* their own (on_message_edit, edit_dm_message), which is confirmed by an
\* embed in the DM channel.
Resolve(via, id) ==
    /\ RelayEvent
    /\ \/ /\ via = "react_chan" /\ id \in Ids(chanHist)
          /\ LET o == FindMessagePayload(MsgOf(chanHist, id), TRUE, TRUE)
             IN  /\ resolved' = Resolution(via, id, TRUE, o)
                 /\ ignored_messages' = o.ign
          /\ UNCHANGED <<chanHist, dmHist, nextId>>
       \/ /\ via = "react_dm" /\ id \in Ids(dmHist)
          /\ LET o == FindDMMessagePayload(MsgOf(dmHist, id), TRUE, FALSE)
             IN  /\ resolved' = Resolution(via, id, TRUE, o)
                 /\ ignored_messages' = o.ign
          /\ UNCHANGED <<chanHist, dmHist, nextId>>
       \/ /\ via = "edit" /\ id \in Ids(chanHist)
          /\ LET o == FetchMessagePayload(id, FALSE, TRUE)
                 h == Command(chanHist, nrelay + 1)
             IN  /\ resolved' = Resolution(via, id, FALSE, o)
                 /\ ignored_messages' = o.ign
                 /\ IF o.res = "ok"
                    THEN chanHist' = h /\ nextId' = nextId + 1
                    ELSE /\ chanHist' = Post(h, ChanMsg(nextId + 1, "info",
                                                        nrelay + 1))
                         /\ nextId' = nextId + 2
          /\ UNCHANGED dmHist
       \/ /\ via = "edit_dm" /\ id \in Ids(dmHist) /\ ~MsgOf(dmHist, id).bot
          /\ LET o == FindDMMessagePayload(MsgOf(dmHist, id), FALSE, FALSE)
             IN  /\ resolved' = Resolution(via, id, FALSE, o)
                 /\ ignored_messages' = o.ign
                 /\ IF o.res = "ok"
                    THEN /\ dmHist' = Post(dmHist, DMMsg(nextId, TRUE, nrelay + 1))
                         /\ nextId' = nextId + 1
                    ELSE UNCHANGED <<dmHist, nextId>>
          /\ UNCHANGED chanHist
    /\ UNCHANGED <<messages, deleted_messages, relays, replies, delEvents>>
    /\ UNCHANGED lvars

\* The delete command: delete_message(message_id).  The payload resolved, the
\* id is remembered in _deleted_messages and both deletes are gathered; not
\* resolved, the command answers with a failure embed.
DeleteCmd(id) ==
    /\ RelayEvent
    /\ id \in Ids(chanHist)
    /\ LET o == FetchMessagePayload(id, FALSE, TRUE)
           h == Command(chanHist, nrelay + 1)
       IN  /\ resolved' = Resolution("delete", id, FALSE, o)
           /\ ignored_messages' = o.ign
           /\ IF o.res = "ok"
              THEN /\ deleted_messages' = deleted_messages \cup {id}
                   /\ relays' = relays \cup
                          {[RelayTask(nrelay + 1, "delete", "gather") EXCEPT
                               !.a = id, !.b = o.linked, !.cmd = TRUE,
                               !.todo = {"a"} \cup
                                   (IF o.linked = None THEN {} ELSE {"b"})]}
                   /\ chanHist' = h
                   /\ nextId' = nextId + 1
              ELSE /\ chanHist' = Post(h, ChanMsg(nextId + 1, "info", nrelay + 1))
                   /\ nextId' = nextId + 2
                   /\ UNCHANGED <<deleted_messages, relays>>
    /\ UNCHANGED <<dmHist, messages, replies, delEvents>>
    /\ UNCHANGED lvars

EventTask(k, m) ==
    [RelayTask(k.id, "on_message_delete", "event") EXCEPT !.m = m, !.cmd = k.cmd]

\* One of the gathered deletes completes.  Deleting a message of the staff
\* channel makes the gateway report it (on_message_delete); when the last
\* delete of the event handler's own gather completes, the handler posts
\* its confirmation.
DeleteDone(k, w) ==
    /\ k.op = "delete" /\ k.pc = "gather" /\ w \in k.todo
    /\ LET rest == [k EXCEPT !.todo = @ \ {w}]
           left == IF rest.todo = {} THEN {} ELSE {rest}
           confirm == rest.todo = {} /\ ~k.cmd /\ k.b \in Ids(dmHist)
           h == IF w = "a" THEN Remove(chanHist, k.a) ELSE chanHist
       IN  /\ relays' = (relays \ {k}) \cup left \cup
                  (IF w = "a" /\ k.a \in Ids(chanHist)
                      THEN {EventTask(k, MsgOf(chanHist, k.a))} ELSE {})
           /\ dmHist' = IF w = "b" THEN Remove(dmHist, k.b) ELSE dmHist
           /\ chanHist' = IF confirm THEN Post(h, ChanMsg(nextId, "info", k.id))
                          ELSE h
           /\ nextId' = IF confirm THEN nextId + 1 ELSE nextId
    /\ UNCHANGED <<messages, ignored_messages, deleted_messages, nrelay,
                   replies, resolved, delEvents>>
    /\ UNCHANGED lvars

\* A member deletes a message of the staff channel by hand.
StaffDeletes(id) ==
    /\ RelayEvent
    /\ id \in Ids(chanHist)
    /\ chanHist' = Remove(chanHist, id)
    /\ relays' = relays \cup
           {EventTask(RelayTask(nrelay + 1, "", ""), MsgOf(chanHist, id))}
    /\ UNCHANGED <<dmHist, messages, ignored_messages, deleted_messages,
                   nextId, replies, resolved, delEvents>>
    /\ UNCHANGED lvars

\* on_message_delete in a DM: the recipient deleted a message of their own;
\* its payload is resolved to mark the staff rendering as deleted.
RecipientDeletes(id) ==
    /\ RelayEvent
    /\ id \in Ids(dmHist) /\ ~MsgOf(dmHist, id).bot
    /\ dmHist' = Remove(dmHist, id)
    /\ LET o == FindDMMessagePayload(MsgOf(dmHist, id), FALSE, TRUE)
       IN  /\ resolved' = Resolution("dm_delete", id, FALSE, o)
           /\ ignored_messages' = o.ign
    /\ UNCHANGED <<chanHist, messages, deleted_messages, relays, nextId,
                   replies, delEvents>>
    /\ UNCHANGED lvars

DeleteEvent(k, recognised, o) ==
    [id |-> k.m.id, by |-> k.id, cmd |-> k.cmd, recognised |-> recognised,
     res |-> o.res, mirrored |-> o.linked]

Silent == {"IgnoredMessage", "DMMessageNotFound", "MalformedThreadMessage"}

\* on_message_delete resolving every deleted message, whether or not the
\* delete command remembered it.
OnMessageDeleteUnguarded(k) ==
    /\ k.op = "on_message_delete" /\ k.pc = "event"
    /\ IF ~k.m.bot
       THEN /\ relays' = relays \ {k}
            /\ UNCHANGED <<chanHist, nextId, ignored_messages,
                           deleted_messages, delEvents>>
       ELSE LET o == FindMessagePayload(k.m, FALSE, FALSE)
                mirror == o.res = "ok" /\ o.linked # None
                post == ~mirror /\ o.res \notin Silent
            IN  /\ UNCHANGED deleted_messages
                /\ delEvents' = delEvents \cup {DeleteEvent(k, FALSE, o)}
                /\ ignored_messages' =
                       IF o.res = "ok" THEN o.ign ELSE o.ign \ {k.m.id}
                /\ relays' = (relays \ {k}) \cup
                       (IF mirror
                           THEN {[RelayTask(k.id, "delete", "gather") EXCEPT
                                     !.b = o.linked, !.todo = {"b"}]}
                           ELSE {})
                /\ chanHist' = IF post
                                  THEN Post(chanHist, ChanMsg(nextId, "info", k.id))
                                  ELSE chanHist
                /\ nextId' = IF post THEN nextId + 1 ELSE nextId
    /\ UNCHANGED <<dmHist, messages, nrelay, replies, resolved>>
    /\ UNCHANGED lvars

\* on_message_delete in the staff channel: only the bot's own messages are
\* handled, by delete_message(message, note=False).  An id remembered by
\* the delete command is forgotten and nothing else is done; otherwise the
\* payload is resolved and its DM counterpart deleted.  The handler ends by
\* posting a confirmation or a failure embed, unless the error is a silent
\* one.
OnMessageDelete(k) ==
    /\ k.op = "on_message_delete" /\ k.pc = "event"
    /\ IF ~k.m.bot
       THEN /\ relays' = relays \ {k}
            /\ UNCHANGED <<chanHist, nextId, ignored_messages,
                           deleted_messages, delEvents>>
       ELSE IF k.m.id \in deleted_messages
       THEN /\ deleted_messages' = deleted_messages \ {k.m.id}
            /\ delEvents' = delEvents \cup
                   {DeleteEvent(k, TRUE, Outcome("", NoEntry, None, {}))}
            /\ relays' = relays \ {k}
            /\ chanHist' = Post(chanHist, ChanMsg(nextId, "info", k.id))
            /\ nextId' = nextId + 1
            /\ UNCHANGED ignored_messages
       ELSE LET o == FindMessagePayload(k.m, FALSE, FALSE)
                mirror == o.res = "ok" /\ o.linked # None
                post == ~mirror /\ o.res \notin Silent
            IN  /\ UNCHANGED deleted_messages
                /\ delEvents' = delEvents \cup {DeleteEvent(k, FALSE, o)}
                /\ ignored_messages' =
                       IF o.res = "ok" THEN o.ign ELSE o.ign \ {k.m.id}
                /\ relays' = (relays \ {k}) \cup
                       (IF mirror
                           THEN {[RelayTask(k.id, "delete", "gather") EXCEPT
                                     !.b = o.linked, !.todo = {"b"}]}
                           ELSE {})
                /\ chanHist' = IF post
                                  THEN Post(chanHist, ChanMsg(nextId, "info", k.id))
                                  ELSE chanHist
                /\ nextId' = IF post THEN nextId + 1 ELSE nextId
    /\ UNCHANGED <<dmHist, messages, nrelay, replies, resolved>>
    /\ UNCHANGED lvars

\* ---------------------------------------------------------- specifications
\* Registry and lifecycle: create, setup, find, immediate close
Init ==
    /\ InitFresh \/ InitOpen
    /\ InitRest
    /\ RelayIdle
    /\ autoClose = 0

\* a coroutine of the registry and lifecycle code resumes
Resume ==
    \/ \E k \in tasks, timeout, confirm \in BOOLEAN :
          FindWaitDone(k, timeout, confirm)
    \/ \E k \in tasks, confirm \in BOOLEAN : CreateStart(k, confirm)
    \/ \E k \in tasks, timeout, confirm \in BOOLEAN :
          CreateWaitDone(k, timeout, confirm)
    \/ \E k \in tasks, accept \in BOOLEAN : ConfirmDone(k, accept)
    \/ \E k \in tasks, created \in BOOLEAN : SetupChan(k, created)
    \/ \E k \in tasks, stored \in BOOLEAN : SetupLog(k, stored)
    \/ \E k \in tasks, timeout \in BOOLEAN : SendWaitDone(k, timeout)
    \/ \E k \in tasks : PostLogDone(k)
    \/ \E k \in tasks, confirm \in BOOLEAN : CloseReturn(k, confirm)

Next ==
    \/ MsgArrive
    \/ ReactionArrive
    \/ CmdCloseNow
    \/ Resume

Spec == Init /\ [][Next]_vars

\* The same with the smaller budget of events of the close scheduler
CloseEvent ==
    /\ nops.ev < MaxSchedOps
    /\ \/ MsgArrive
       \/ ReactionArrive
       \/ CmdCloseNow

CloseNext ==
    \/ CloseEvent
    \/ Resume

SpecClose == Init /\ [][CloseNext]_vars

\* Thread creation alone: DMs of a recipient who has no thread; the only
\* close() calls are those find() and create() make themselves
CreateInit ==
    /\ InitFresh
    /\ InitRest
    /\ RelayIdle
    /\ autoClose = 0

CreateNext ==
    \/ MsgArrive
    \/ \E k \in tasks, timeout, confirm \in BOOLEAN :
          FindWaitDone(k, timeout, confirm)
    \/ \E k \in tasks, confirm \in BOOLEAN : CreateStart(k, confirm)
    \/ \E k \in tasks, timeout, confirm \in BOOLEAN :
          CreateWaitDone(k, timeout, confirm)
    \/ \E k \in tasks, accept \in BOOLEAN : ConfirmDone(k, accept)
    \/ \E k \in tasks, created \in BOOLEAN : SetupChan(k, created)
    \/ \E k \in tasks, stored \in BOOLEAN : SetupLog(k, stored)
    \/ \E k \in tasks, timeout \in BOOLEAN : SendWaitDone(k, timeout)
    \/ \E k \in tasks, confirm \in BOOLEAN : CloseReturn(k, confirm)

SpecCreate == CreateInit /\ [][CreateNext]_vars

\* Close scheduler: one open thread, delayed and inactivity closes
SchedInit ==
    /\ InitOpen
    /\ InitRest
    /\ RelayIdle
    /\ autoClose \in {0, AutoCloseSeconds}

\* a gateway event for the open thread is taken up
SchedEvent ==
    /\ nops.ev < MaxSchedOps
    /\ cache # None
    /\ \/ MsgArrive
       \/ CmdCloseNow
       \/ CmdCloseLater
       \/ CmdCancel
       \/ \E shared \in BOOLEAN : CmdReply(shared)

SchedNext ==
    \/ SchedEvent
    \/ \E k \in tasks : FindWaitDone(k, FALSE, FALSE)
    \/ \E k \in tasks, delivered \in BOOLEAN : ReplyDM(k, delivered)
    \/ \E k \in tasks : ReplyChan(k)
    \/ \E k \in tasks : CCWaitDone(k, FALSE)
    \/ \E k \in tasks : ArmWaitDone(k)
    \/ \E k \in tasks : CloseCCWaitDone(k)
    \/ \E k \in tasks : PostLogDone(k)
    \/ \E k \in tasks : CloseReturn(k, FALSE)
    \/ \E x \in timers : TimerFire(x)
    \/ Tick

SpecSched == SchedInit /\ [][SchedNext]_vars

\* Start-up of a new process.  Thread 1 is the instance of the previous
\* process, which made channel 1 and wrote its log entry; it is gone with
\* that process (nfinal tells whether its entry was closed then).
ReadyInit ==
    /\ cache = None
    /\ \E closed \in BOOLEAN :
          /\ thr = <<[NewThread(1, TRUE, "create") EXCEPT
                         !.nfinal = IF closed THEN 1 ELSE 0]>>
          /\ logs = [TypeLogs EXCEPT ![1] = IF closed THEN "closed"
                                            ELSE "open"]
    /\ channels \in {{}, {1}}
    /\ persisted \in {NoPersisted} \cup
            [by : {BootId}, time : 0..MaxTime, auto : BOOLEAN,
             silent : BOOLEAN, del : BOOLEAN]
    /\ closures = [by |-> persisted.by, time |-> persisted.time,
                   auto |-> persisted.auto]
    /\ now \in 0..MaxTime
    /\ started = FALSE
    /\ tasks = {NewTask(ReadyId, "ready", "populate", None)}
    /\ timers = {}
    /\ fired = {}
    /\ nops = [ev |-> 0, reply |-> 0]
    /\ overlap = FALSE
    /\ closeReturned = {}
    /\ createRet = {}
    /\ notes = <<>>
    /\ LookupIdle
    /\ autoClose = 0
    /\ RelayIdle

ReadyNext ==
    \/ \E k \in tasks : PopulateCache(k)
    \/ \E k \in tasks : HandleClosures(k)
    \/ \E k \in tasks : ValidateStart(k)
    \/ \E k \in tasks, c \in 1..MaxThreads : ValidateLog(k, c)
    \/ \E k \in tasks : ReadyDone(k)
    \/ \E k \in tasks : CCWaitDone(k, FALSE)
    \/ \E k \in tasks : ArmWaitDone(k)
    \/ \E k \in tasks : CloseCCWaitDone(k)
    \/ \E k \in tasks : PostLogDone(k)
    \/ \E k \in tasks : CloseReturn(k, FALSE)
    \/ \E x \in timers : TimerFire(x)
    \/ Tick

SpecReady == ReadyInit /\ [][ReadyNext]_vars

\* Closes of one open thread, now or after a delay, whose side effects may
\* fail
EffectsEvent ==
    /\ nops.ev < MaxSchedOps
    /\ cache # None
    /\ \/ CmdCloseNow
       \/ CmdCloseLater

EffectsNext ==
    \/ EffectsEvent
    \/ \E k \in tasks : CCWaitDone(k, FALSE)
    \/ \E k \in tasks : ArmWaitDone(k)
    \/ \E k \in tasks : CloseCCWaitDone(k)
    \/ \E k \in tasks : PostLogDone(k)
    \/ \E k \in tasks : CloseReturn(k, FALSE)
    \/ \E k \in tasks,
          f \in {"config", "notice", "dm_forbidden", "dm_http", "delete"} :
          CloseGatherFails(k, f, FALSE)
    \/ \E x \in timers : TimerFire(x)
    \/ Tick

SpecEffects == SchedInit /\ [][EffectsNext]_vars

\* The thread of the relay specification is open and has relayed two
\* messages before: a reply (staff rendering 1, DM rendering 2) and a
\* message of the recipient (staff rendering 3, DM original 4), each
\* followed in both channels by no message or by HistoryLimit - 2 later ones.
Ages == {0, HistoryLimit - 2}

RelayInit ==
    /\ InitOpen
    /\ InitRest
    /\ autoClose = 0
    /\ \E a \in Ages :
          /\ chanHist = {[ChanMsg(1, "relay", None) EXCEPT !.newer = a + 1],
                         [ChanMsg(3, "relay", None) EXCEPT !.newer = a]}
          /\ dmHist = {[DMMsg(2, TRUE, None) EXCEPT !.newer = a + 1],
                       [DMMsg(4, FALSE, None) EXCEPT !.newer = a]}
    /\ messages = <<Entry(1, <<1, 2>>, TRUE, "thread_message", None),
                    Entry(4, <<3, 4>>, FALSE, "thread_message", None)>>
    /\ ignored_messages = {}
    /\ deleted_messages = {}
    /\ relays = {}
    /\ nextId = 5
    /\ nrelay = 0
    /\ replies = {}
    /\ resolved = NoResolution
    /\ delEvents = {}

RelayNext ==
    \/ RecipientDM
    \/ \E k \in relays, ok \in BOOLEAN : RecipientDMSent(k, ok)
    \/ \E k \in relays : AppendDone(k)
    \/ \E shared \in BOOLEAN : RelayReply(shared)
    \/ \E k \in relays, delivered \in BOOLEAN : RelayReplyDM(k, delivered)
    \/ \E k \in relays, ok \in BOOLEAN : RelayReplyChan(k, ok)
    \/ \E k \in relays : RelayReplyLogged(k)
    \/ RelayNote
    \/ \E k \in relays, ok \in BOOLEAN : NoteSent(k, ok)
    \/ \E via \in {"react_chan", "react_dm", "edit", "edit_dm"},
          id \in 1..nextId : Resolve(via, id)

SpecRelay == RelayInit /\ [][RelayNext]_vars

DeleteNext ==
    \/ RelayNote
    \/ \E k \in relays, ok \in BOOLEAN : NoteSent(k, ok)
    \/ \E k \in relays : AppendDone(k)
    \/ \E id \in 1..nextId : DeleteCmd(id)
    \/ \E k \in relays, w \in {"a", "b"} : DeleteDone(k, w)
    \/ \E id \in 1..nextId : StaffDeletes(id)
    \/ \E id \in 1..nextId : RecipientDeletes(id)
    \/ \E k \in relays : OnMessageDelete(k)

SpecDelete == RelayInit /\ [][DeleteNext]_vars

\* Linking while the log is behind: besides the two logged pairs, the thread
\* has just relayed a message of the recipient (DM original 5, staff
\* rendering 6) and the append of its log entry is in flight.
LinkInit ==
    /\ InitOpen
    /\ InitRest
    /\ autoClose = 0
    /\ \E a \in Ages :
          /\ chanHist = Post({[ChanMsg(1, "relay", None) EXCEPT !.newer = a + 1],
                              [ChanMsg(3, "relay", None) EXCEPT !.newer = a]},
                             ChanMsg(6, "relay", 0))
          /\ dmHist = Post({[DMMsg(2, TRUE, None) EXCEPT !.newer = a + 1],
                            [DMMsg(4, FALSE, None) EXCEPT !.newer = a]},
                           DMMsg(5, FALSE, 0))
    /\ messages = <<Entry(1, <<1, 2>>, TRUE, "thread_message", None),
                    Entry(4, <<3, 4>>, FALSE, "thread_message", None)>>
    /\ ignored_messages = {}
    /\ deleted_messages = {}
    /\ relays = {[RelayTask(0, "send", "append") EXCEPT
                     !.a = 6, !.b = 5,
                     !.entry = Entry(5, <<6, 5>>, FALSE, "thread_message", 0)]}
    /\ nextId = 7
    /\ nrelay = 0
    /\ replies = {}
    /\ resolved = NoResolution
    /\ delEvents = {}

LinkNext ==
    \/ \E k \in relays : AppendDone(k)
    \/ \E via \in {"react_chan", "react_dm", "edit", "edit_dm"},
          id \in 1..nextId : Resolve(via, id)

SpecLink == LinkInit /\ [][LinkNext]_vars

\* ------------------------------------------------------------ edit_message
\* What a message shows: the description of its first embed (NoEmbed when
\* it has no embed) and its text content (NoText when it has none).
NoEmbed == "<no embed>"
Text(tag, name, content) == [tag |-> tag, name |-> name, content |-> content]
NoText == Text("", "", "")

Shown(m, embed, text) ==
    [id |-> m.id, kind |-> m.kind, bot |-> m.bot, newer |-> m.newer,
     by |-> m.by, embed |-> embed, text |-> text]

\* The content of a logged message and whether it was edited.
Logged(e, content) ==
    [message_id |-> e.message_id, linked_ids |-> e.linked_ids, mod |-> e.mod,
     type |-> e.type, by |-> e.by, content |-> content, edited |-> FALSE]

AnonTag == "Response"

\* get_top_role(author), as text
TopRole(author) == <<"role of 1", "role of 2">>[author]

\* str(author)
Str(author) == <<"member 1", "member 2">>[author]

\* "**({tag}) {name}:** {content}", the text of a plain reply: the
\* configured mod_tag and anon_username are not set
PlainMessage(type, author, content) ==
    IF type = "anonymous"
        THEN Text(AnonTag, TopRole(author), content)
        ELSE Text(TopRole(author), Str(author), content)

Contents == {"new"}
Editors == {2}

\* The frame of edit_message(author, id, content) at its gather
EditTask(n, author, content, id, o) ==
    [id |-> n, op |-> "edit", pc |-> "gather", a |-> id, b |-> o.linked,
     entry |-> o.e, content |-> content, author |-> author,
     todo |-> {"log", "a"} \cup (IF o.linked = None THEN {} ELSE {"b"})]

\* The edit command: the command message is posted, the payload of the
\* message is resolved, and the edits are gathered.
EditCmd(author, id, content) ==
    /\ RelayEvent
    /\ id \in Ids(chanHist)
    /\ LET o == FetchMessagePayload(id, FALSE, TRUE)
           cmd == Shown(ChanMsg(nextId, "staff", author), NoEmbed,
                        Text("", "", content))
           h == Post(chanHist, cmd)
       IN  /\ resolved' = Resolution("edit", id, FALSE, o)
           /\ ignored_messages' = o.ign
           /\ IF o.res = "ok"
              THEN /\ relays' = relays \cup
                          {EditTask(nrelay + 1, author, content, id, o)}
                   /\ chanHist' = h
                   /\ nextId' = nextId + 1
              ELSE /\ chanHist' = Post(h, Shown(ChanMsg(nextId + 1, "info",
                                                        nrelay + 1),
                                                "Failed", NoText))
                   /\ nextId' = nextId + 2
                   /\ UNCHANGED relays
    /\ UNCHANGED <<dmHist, messages, deleted_messages, replies, delEvents>>
    /\ UNCHANGED lvars

\* api.edit_message(): the first logged message with that message_id
EditLog(id, content) ==
    LET hits == {i \in DOMAIN messages : messages[i].message_id = id}
        first == CHOOSE i \in hits : \A j \in hits : i <= j
    IN  IF hits = {} THEN messages
        ELSE [messages EXCEPT ![first].content = content,
                              ![first].edited = TRUE]

\* message.edit(embed=...) or message.edit(content=...)
Patch(h, id, embed, text) ==
    {IF m.id = id THEN [m EXCEPT !.embed = embed, !.text = text] ELSE m :
        m \in h}

\* edit_message() patching the embed of the counterpart whatever it shows
EditCounterpartEmbedOnly(k, m) == [embed |-> k.content, text |-> m.text]

\* edit_message(): what the DM counterpart shows after the edit
EditCounterpart(k, m) ==
    IF m.embed # NoEmbed
        THEN [embed |-> k.content, text |-> m.text]
        ELSE [embed |-> NoEmbed,
              text |-> PlainMessage(k.entry.type, k.author, k.content)]

\* One of the gathered edits completes; after the last one the command
\* returns.
EditDone(k, w) ==
    /\ k.op = "edit" /\ k.pc = "gather" /\ w \in k.todo
    /\ LET rest == [k EXCEPT !.todo = @ \ {w},
                             !.pc = IF k.todo = {w} THEN "done" ELSE @]
       IN  /\ relays' = (relays \ {k}) \cup {rest}
           /\ messages' = IF w = "log" THEN EditLog(k.a, k.content)
                          ELSE messages
           /\ chanHist' = IF w = "a"
                              THEN Patch(chanHist, k.a, k.content,
                                         MsgOf(chanHist, k.a).text)
                              ELSE chanHist
           /\ dmHist' = IF w = "b"
                            THEN LET c == EditCounterpart(k, MsgOf(dmHist, k.b))
                                 IN  Patch(dmHist, k.b, c.embed, c.text)
                            ELSE dmHist
    /\ UNCHANGED <<ignored_messages, deleted_messages, nextId, nrelay,
                   replies, resolved, delEvents>>
    /\ UNCHANGED lvars

\* The thread of the edit specification is open and holds two replies
\* (staff rendering 1 with DM rendering 2, staff rendering 3 with DM
\* rendering 4), the first normal, the second anonymous, each delivered as an embed or
\* as plain text, and a note (5).
Reply(a, b, type, plain) ==
    [chan |-> Shown(ChanMsg(a, "relay", None), "old", NoText),
     dm |-> IF plain
               THEN Shown(DMMsg(b, TRUE, None), NoEmbed,
                          PlainMessage(type, 1, "old"))
               ELSE Shown(DMMsg(b, TRUE, None), "old", NoText),
     entry |-> Logged(Entry(a, <<a, b>>, TRUE, type, None), "old")]

Stack(ms) == {[ms[i] EXCEPT !.newer = Len(ms) - i] : i \in DOMAIN ms}

EditInit ==
    /\ InitOpen
    /\ InitRest
    /\ autoClose = 0
    /\ \E p1, p2 \in BOOLEAN :
          LET r1 == Reply(1, 2, "thread_message", p1)
              r2 == Reply(3, 4, "anonymous", p2)
          IN  /\ chanHist = Stack(<<r1.chan, r2.chan,
                                    Shown(ChanMsg(5, "note", None), "old", NoText)>>)
              /\ dmHist = Stack(<<r1.dm, r2.dm>>)
              /\ messages = <<r1.entry, r2.entry,
                              Logged(Entry(5, <<>>, TRUE, "system", None), "old")>>
    /\ ignored_messages = {}
    /\ deleted_messages = {}
    /\ relays = {}
    /\ nextId = 6
    /\ nrelay = 0
    /\ replies = {}
    /\ resolved = NoResolution
    /\ delEvents = {}

EditNext ==
    \/ \E author \in Editors, id \in 1..nextId, content \in Contents :
          EditCmd(author, id, content)
    \/ \E k \in relays, w \in {"log", "a", "b"} : EditDone(k, w)

SpecEdit == EditInit /\ [][EditNext]_vars

\* ------------------------------------------------- setup() once ready
\* After `self.ready = True` setup() gathers send_genesis_message,
\* send_recipient_genesis_message and send_persistent_notes.  Messages of
\* the staff channel carry the thread in `by`; the handshake embed has kind
\* "genesis", the creation notice in the DM channel kind "creation".
MaxNotes == 2

\* the notes stored for R by earlier threads; their messages are in the
\* channels of those threads
StoredNotes(n) == [i \in 1..n |-> [oid |-> i, message_id |-> None]]

\* setup() of thread t has set ready and started its gather
TailStarted(t) == thr[t].via = "create" /\ thr[t].thread_create > 0

\* gather() has returned when the three coroutines have: send_genesis_message
\* catches its exceptions, the other two do not; thread_ready is dispatched
Settle(tl) ==
    [tl EXCEPT !.ready = /\ tl.genesis \in {"ok", "failed"}
                         /\ tl.recipient = "ok"
                         /\ tl.notes = "ok"]

\* what a step of the gathered coroutines leaves alone
TailFrame ==
    UNCHANGED <<cache, channels, logs, closures, timers, fired, tasks, nops,
                now, autoClose, overlap, closeReturned, createRet, persisted,
                started, ignored_messages, deleted_messages, nrelay, replies,
                resolved, delEvents, manager, ctc>>

\* send_genesis_message ending without the embed in the channel
GenesisSentNowhere(t, ok) ==
    /\ TailStarted(t) /\ thr[t].tail.genesis = "idle"
    /\ ok => thr[t].channel \in channels
    /\ UNCHANGED <<chanHist, nextId>>
    /\ thr' = [thr EXCEPT ![t].tail =
                  Settle([@ EXCEPT !.genesis = IF ok THEN "ok" ELSE "failed"])]
    /\ UNCHANGED <<dmHist, messages, relays, notes>>
    /\ TailFrame

\* send_genesis_message: channel.send(mention, embed=info_embed) is over
GenesisSent(t, ok) ==
    /\ TailStarted(t) /\ thr[t].tail.genesis = "idle"
    /\ ok => thr[t].channel \in channels
    /\ IF ok
       THEN /\ chanHist' = Post(chanHist, ChanMsg(nextId, "genesis", t))
            /\ nextId' = nextId + 1
       ELSE UNCHANGED <<chanHist, nextId>>
    /\ thr' = [thr EXCEPT ![t].tail =
                  Settle([@ EXCEPT !.genesis = IF ok THEN "ok" ELSE "failed"])]
    /\ UNCHANGED <<dmHist, messages, relays, notes>>
    /\ TailFrame

\* send_recipient_genesis_message: recipient.send(embed=embed) is over
RecipientGenesisSent(t, ok) ==
    /\ TailStarted(t) /\ thr[t].tail.recipient = "idle"
    /\ IF ok
       THEN /\ dmHist' = Post(dmHist, [DMMsg(nextId, TRUE, t) EXCEPT
                                          !.kind = "creation"])
            /\ nextId' = nextId + 1
       ELSE UNCHANGED <<dmHist, nextId>>
    /\ thr' = [thr EXCEPT ![t].tail =
                  Settle([@ EXCEPT !.recipient = IF ok THEN "ok" ELSE "failed"])]
    /\ UNCHANGED <<chanHist, messages, relays, notes>>
    /\ TailFrame

\* send_persistent_notes: api.find_notes(recipient) has returned
NotesFound(t) ==
    /\ TailStarted(t) /\ thr[t].tail.notes = "idle"
    /\ thr' = [thr EXCEPT ![t].tail =
                  IF notes = <<>> THEN Settle([@ EXCEPT !.notes = "ok"])
                  ELSE [@ EXCEPT !.notes = "run", !.todo = notes]]
    /\ UNCHANGED <<chanHist, dmHist, messages, relays, nextId, notes>>
    /\ TailFrame

\* note() posting the replayed note in the DM channel of the recipient
NotePostedToRecipient(t, ok) ==
    /\ thr[t].tail.notes = "run" /\ thr[t].tail.todo # <<>>
    /\ ok => thr[t].channel \in channels
    /\ IF ok
       THEN /\ dmHist' = Post(dmHist, DMMsg(nextId, TRUE, t))
            /\ nextId' = nextId + 1
            /\ relays' = relays \cup
                   {[RelayTask(nextId, "note", "append") EXCEPT
                        !.a = nextId,
                        !.entry = Entry(nextId, <<>>, TRUE, "system", t)]}
            /\ thr' = [thr EXCEPT
                  ![t].tail.todo = Tail(@),
                  ![t].tail.ids = Append(@, [oid |-> Head(thr[t].tail.todo).oid,
                                             id |-> nextId])]
       ELSE /\ thr' = [thr EXCEPT ![t].tail.notes = "failed"]
            /\ UNCHANGED <<dmHist, nextId, relays>>
    /\ UNCHANGED <<chanHist, messages, notes>>
    /\ TailFrame

\* send_persistent_notes: note(message, persistent=True, thread_creation=True)
\* of the next note has returned or raised: send() has posted the note in
\* the staff channel and the append of its SYSTEM entry is spawned
NotePosted(t, ok) ==
    /\ thr[t].tail.notes = "run" /\ thr[t].tail.todo # <<>>
    /\ ok => thr[t].channel \in channels
    /\ IF ok
       THEN /\ chanHist' = Post(chanHist, ChanMsg(nextId, "note", t))
            /\ nextId' = nextId + 1
            /\ relays' = relays \cup
                   {[RelayTask(nextId, "note", "append") EXCEPT
                        !.a = nextId,
                        !.entry = Entry(nextId, <<>>, TRUE, "system", t)]}
            /\ thr' = [thr EXCEPT
                  ![t].tail.todo = Tail(@),
                  ![t].tail.ids = Append(@, [oid |-> Head(thr[t].tail.todo).oid,
                                             id |-> nextId])]
       ELSE /\ thr' = [thr EXCEPT ![t].tail.notes = "failed"]
            /\ UNCHANGED <<chanHist, nextId, relays>>
    /\ UNCHANGED <<dmHist, messages, notes>>
    /\ TailFrame

\* api.update_note_ids(ids): each stored note that is still there gets the
\* id of the message that replays it
UpdateNoteIds(ids) ==
    [i \in DOMAIN notes |->
        IF \E j \in DOMAIN ids : ids[j].oid = notes[i].oid
        THEN [notes[i] EXCEPT !.message_id =
                 ids[CHOOSE j \in DOMAIN ids : ids[j].oid = notes[i].oid].id]
        ELSE notes[i]]

\* send_persistent_notes: the loop is over, update_note_ids has returned
NoteIdsUpdated(t) ==
    /\ thr[t].tail.notes = "run" /\ thr[t].tail.todo = <<>>
    /\ notes' = UpdateNoteIds(thr[t].tail.ids)
    /\ thr' = [thr EXCEPT ![t].tail = Settle([@ EXCEPT !.notes = "ok"])]
    /\ UNCHANGED <<chanHist, dmHist, messages, relays, nextId>>
    /\ TailFrame

\* api.append_log() of a message of thread k.entry.by resumed:
\* find_one_and_update pushes the entry to the log document of the
\* channel, when there is one
LogAppended(k) ==
    /\ k.pc = "append"
    /\ messages' = IF logs[thr[k.entry.by].channel] # "none"
                   THEN Append(messages, k.entry) ELSE messages
    /\ relays' = relays \ {k}
    /\ UNCHANGED <<chanHist, dmHist, ignored_messages, deleted_messages,
                   nextId, nrelay, replies, resolved, delEvents>>
    /\ UNCHANGED lvars

\* the append of the log entry of a relayed DM; the recipient's own message
\* is not in the DM history of this specification
RelayAppend(k, id) ==
    [RelayTask(id, "send", "append") EXCEPT
        !.a = id,
        !.entry = Entry(None, <<id, None>>, FALSE, "thread_message", k.th)]

\* send(message) of process_dm_modmail resumed after wait_until_ready: the
\* embed is posted in the staff channel (or the send raises); when the
\* message has more than one image, ready is cleared while the others are
\* sent; otherwise the append of the log entry is spawned and send returns
SendRelay(k, ok, images) ==
    /\ k.pc = "send_wait"
    /\ thr[k.th].ready \/ thr[k.th].cancelled
    /\ ok => thr[k.th].ready /\ thr[k.th].channel \in channels
    /\ IF ok
       THEN /\ chanHist' = Post(chanHist, ChanMsg(nextId, "relay", k.th))
            /\ nextId' = nextId + 1
            /\ relays' = IF images THEN relays
                         ELSE relays \cup {RelayAppend(k, nextId)}
            /\ FinishState(k, [s |-> IF images
                                    THEN [Cur EXCEPT !.thr[k.th].ready = FALSE]
                                    ELSE Cur,
                               k |-> [k EXCEPT !.pc = IF images THEN "images"
                                                      ELSE "done",
                                               !.m = nextId],
                               new |-> {}, ok |-> TRUE])
       ELSE /\ FinishState(k, [s |-> Cur, k |-> [k EXCEPT !.pc = "done"],
                               new |-> {}, ok |-> TRUE])
            /\ UNCHANGED <<chanHist, nextId, relays>>
    /\ UNCHANGED <<dmHist, messages, ignored_messages, deleted_messages,
                   nrelay, replies, resolved, delEvents>>
    /\ UNCHANGED <<channels, logs, fired, nops, now, autoClose, overlap>>

\* send(): the gather of the additional images has returned (ready is set
\* again, which dispatches thread_create, and the append is spawned) or it
\* has raised
ImagesSent(k, ok) ==
    /\ k.pc = "images"
    /\ IF ok
       THEN /\ relays' = relays \cup {RelayAppend(k, k.m)}
            /\ FinishState(k, [s |-> [Cur EXCEPT
                                        !.thr[k.th].ready = TRUE,
                                        !.thr[k.th].thread_create = @ + 1],
                               k |-> [k EXCEPT !.pc = "done"],
                               new |-> {}, ok |-> TRUE])
       ELSE /\ FinishState(k, [s |-> Cur, k |-> [k EXCEPT !.pc = "done"],
                               new |-> {}, ok |-> TRUE])
            /\ UNCHANGED relays
    /\ UNCHANGED <<chanHist, dmHist, messages, ignored_messages,
                   deleted_messages, nextId, nrelay, replies, resolved,
                   delEvents>>
    /\ UNCHANGED <<channels, logs, fired, nops, now, autoClose, overlap>>

\* First contact: the recipient has no thread; up to MaxNotes persistent
\* notes are stored for them.
GenesisInit ==
    /\ InitFresh
    /\ InitState
    /\ RelayIdle
    /\ autoClose = 0
    /\ \E n \in 0..MaxNotes : notes = StoredNotes(n)
    /\ LookupIdle

\* the first DM of the recipient
GenesisEvent == nops.ev = 0 /\ MsgArrive

GenesisNext ==
    \/ GenesisEvent
    \/ \E k \in tasks : CreateStart(k, FALSE)
    \/ \E k \in tasks, created \in BOOLEAN : SetupChan(k, created)
    \/ \E k \in tasks, stored \in BOOLEAN : SetupLog(k, stored)
    \/ \E k \in tasks, ok, images \in BOOLEAN : SendRelay(k, ok, images)
    \/ \E k \in tasks, ok \in BOOLEAN : ImagesSent(k, ok)
    \/ \E t \in 1..Len(thr), ok \in BOOLEAN : GenesisSent(t, ok)
    \/ \E t \in 1..Len(thr), ok \in BOOLEAN : RecipientGenesisSent(t, ok)
    \/ \E t \in 1..Len(thr) : NotesFound(t)
    \/ \E t \in 1..Len(thr), ok \in BOOLEAN : NotePosted(t, ok)
    \/ \E t \in 1..Len(thr) : NoteIdsUpdated(t)
    \/ \E k \in relays : LogAppended(k)

SpecGenesis == GenesisInit /\ [][GenesisNext]_vars

\* First contact when no platform call fails.  The event loop runs every
\* coroutine that can continue, and every call returns.
LiveNext ==
    \/ GenesisEvent
    \/ \E k \in tasks : CreateStart(k, FALSE)
    \/ \E k \in tasks : SetupChan(k, TRUE)
    \/ \E k \in tasks : SetupLog(k, TRUE)
    \/ \E k \in tasks, images \in BOOLEAN : SendRelay(k, TRUE, images)
    \/ \E k \in tasks : ImagesSent(k, TRUE)
    \/ \E t \in 1..Len(thr) : GenesisSent(t, TRUE)
    \/ \E t \in 1..Len(thr) : RecipientGenesisSent(t, TRUE)
    \/ \E t \in 1..Len(thr) : NotesFound(t)
    \/ \E t \in 1..Len(thr) : NotePosted(t, TRUE)
    \/ \E t \in 1..Len(thr) : NoteIdsUpdated(t)
    \/ \E k \in relays : LogAppended(k)

LiveGenesis == GenesisInit /\ [][LiveNext]_vars /\ WF_vars(LiveNext)

\* ------------------------------------------- find_message_payload, in steps
\* find_message_payload(message) awaits api.get_message_payload between its
\* checks of the message and its handling of the answer, so two resolutions
\* of one message can both be past the checks when the first answer comes.
\* The tail of find_message_payload once the payload is there: the direction
\* rule, the counterpart in the recipient's DM channel, the note rule.
Linked(m, e, either, note) ==
    LET l == FindLinkedMessage(dmHist, e)
        none == ignored_messages
    IN  IF e.linked_ids # <<>> /\ ~e.mod /\ ~either
            THEN Outcome("ThreadMessageNotFound", NoEntry, None, none)
        ELSE IF e.linked_ids # <<>> /\ l = None
            THEN Outcome("DMMessageNotFound", NoEntry, None, none)
        ELSE IF e.type = "system" /\ ~note
            THEN Outcome("DMMessageNotFound", NoEntry, None, none)
        ELSE Outcome("ok", e, l, none)

\* handle_reaction_events forgetting the message that failed the check.
ResolveBeginForgets(id) ==
    /\ RelayEvent
    /\ id \in Ids(chanHist)
    /\ LET m == MsgOf(chanHist, id)
           none == ignored_messages
       IN  IF id \in ignored_messages
           THEN /\ resolved' = Resolution("react_chan", id, TRUE,
                       Outcome("IgnoredMessage", NoEntry, None, none))
                /\ UNCHANGED <<ignored_messages, relays>>
           ELSE IF ~m.bot
           THEN /\ resolved' = Resolution("react_chan", id, TRUE,
                       Outcome("MalformedThreadMessage", NoEntry, None, none))
                /\ UNCHANGED <<ignored_messages, relays>>
           ELSE /\ relays' = relays \cup
                       {[RelayTask(nrelay + 1, "resolve", "payload")
                            EXCEPT !.a = id]}
                /\ UNCHANGED <<resolved, ignored_messages>>
    /\ UNCHANGED <<chanHist, dmHist, messages, deleted_messages, nextId,
                   replies, delEvents>>
    /\ UNCHANGED lvars

\* handle_reaction_events, a reaction on a message of the staff channel:
\* find_message_payload(message, either_direction=True) up to its first
\* await.  An ignored id raises IgnoredMessage; a message that is not an
\* embed of the bot is added to _ignored_messages and raises
\* MalformedThreadMessage; otherwise api.get_message_payload is awaited.
ResolveBegin(id) ==
    /\ RelayEvent
    /\ id \in Ids(chanHist)
    /\ LET m == MsgOf(chanHist, id)
           none == ignored_messages
       IN  IF id \in ignored_messages
           THEN /\ resolved' = Resolution("react_chan", id, TRUE,
                       Outcome("IgnoredMessage", NoEntry, None, none))
                /\ UNCHANGED <<ignored_messages, relays>>
           ELSE IF ~m.bot
           THEN /\ resolved' = Resolution("react_chan", id, TRUE,
                       Outcome("MalformedThreadMessage", NoEntry, None, none))
                /\ ignored_messages' = ignored_messages \cup {id}
                /\ UNCHANGED relays
           ELSE /\ relays' = relays \cup
                       {[RelayTask(nrelay + 1, "resolve", "payload")
                            EXCEPT !.a = id]}
                /\ UNCHANGED <<resolved, ignored_messages>>
    /\ UNCHANGED <<chanHist, dmHist, messages, deleted_messages, nextId,
                   replies, delEvents>>
    /\ UNCHANGED lvars

\* api.get_message_payload answering None always raises IgnoredMessage.
ResolveFetchedIgnores(k) ==
    /\ k.op = "resolve" /\ k.pc = "payload"
    /\ LET e == GetMessagePayload(k.a)
           o == IF e # NoEntry
                THEN Linked(MsgOf(chanHist, k.a), e, TRUE, TRUE)
                ELSE Outcome("IgnoredMessage", NoEntry, None,
                             ignored_messages \cup {k.a})
       IN  /\ resolved' = Resolution("react_chan", k.a, TRUE, o)
           /\ ignored_messages' = o.ign
    /\ relays' = relays \ {k}
    /\ UNCHANGED <<chanHist, dmHist, messages, deleted_messages, nextId,
                   nrelay, replies, delEvents>>
    /\ UNCHANGED lvars

\* api.get_message_payload has answered.  No payload: the id is added to
\* _ignored_messages and IgnoredMessage raised, unless the id is in the set
\* by now, which raises ThreadMessageNotFound.  A payload is linked.
ResolveFetched(k) ==
    /\ k.op = "resolve" /\ k.pc = "payload"
    /\ LET e == GetMessagePayload(k.a)
           o == IF e # NoEntry
                THEN Linked(MsgOf(chanHist, k.a), e, TRUE, TRUE)
                ELSE IF k.a \notin ignored_messages
                THEN Outcome("IgnoredMessage", NoEntry, None,
                             ignored_messages \cup {k.a})
                ELSE Outcome("ThreadMessageNotFound", NoEntry, None,
                             ignored_messages)
       IN  /\ resolved' = Resolution("react_chan", k.a, TRUE, o)
           /\ ignored_messages' = o.ign
    /\ relays' = relays \ {k}
    /\ UNCHANGED <<chanHist, dmHist, messages, deleted_messages, nextId,
                   nrelay, replies, delEvents>>
    /\ UNCHANGED lvars

\* The thread of RelayInit with two more messages in its channel: an embed
\* of the bot that was never logged (5, the answer to a command) and a plain
\* message of a staff member (6).
ResolveInit ==
    /\ InitOpen
    /\ InitRest
    /\ autoClose = 0
    /\ \E a \in Ages :
          /\ chanHist = Post(Post(
                 {[ChanMsg(1, "relay", None) EXCEPT !.newer = a + 1],
                  [ChanMsg(3, "relay", None) EXCEPT !.newer = a]},
                 ChanMsg(5, "info", 0)), ChanMsg(6, "staff", 0))
          /\ dmHist = {[DMMsg(2, TRUE, None) EXCEPT !.newer = a + 1],
                       [DMMsg(4, FALSE, None) EXCEPT !.newer = a]}
    /\ messages = <<Entry(1, <<1, 2>>, TRUE, "thread_message", None),
                    Entry(4, <<3, 4>>, FALSE, "thread_message", None)>>
    /\ ignored_messages = {}
    /\ deleted_messages = {}
    /\ relays = {}
    /\ nextId = 7
    /\ nrelay = 0
    /\ replies = {}
    /\ resolved = NoResolution
    /\ delEvents = {}

ResolveNext ==
    \/ \E id \in 1..nextId : ResolveBegin(id)
    \/ \E k \in relays : ResolveFetched(k)

SpecResolve == ResolveInit /\ [][ResolveNext]_vars

\* ------------------------------------------- lookup by channel and repair
\* ModmailThreadManager.find(channel=...) and repair(channel) over the
\* registry of several recipients.  manager.cache is the dict self.cache in
\* insertion order, one entry per recipient: the recipient, the channel the
\* ModmailThread is bound to and the instance; manager.topic is the topic of
\* each thread channel; manager.ret is the outcome of the last lookup.
MaxUsers == 2

MaxChans == 3

MaxLookups == 3

Users == 1..MaxUsers

Chans == 1..MaxChans

\* the recipient whose thread channel c was created for: the user id in the
\* footer of the handshake embed and in the log entry of c.  The channels
\* beyond MaxUsers are further channels of the same recipients (an older
\* channel that was never deleted).
Owner(c) == ((c - 1) % MaxUsers) + 1

NoTopic == [bot |-> "none", user |-> None]

\* utils.generate_topic_string(bot.user.id, user_id)
GenerateTopic(u) == [bot |-> "self", user |-> u]

\* utils.match_user_id(text, bot_id): with a bot id the topic must name this
\* bot, without one any "User ID: ..." matches
MatchUserId(text, bot_id) ==
    IF text.user = None THEN None
    ELSE IF bot_id = "any" \/ text.bot = bot_id THEN text.user
    ELSE None

NoThread == [user |-> None, channel |-> None, inst |-> None]

\* the outcome of a lookup: the sources it read, the user id it settled on
\* and the thread it returned; for repair() also its arguments and what the
\* channel history and the Log Store hold
NoRet == [seq |-> 0, op |-> "none", chan |-> None, read |-> {},
          user |-> None, thread |-> NoThread, check |-> FALSE,
          given |-> None, history |-> None, log |-> None]

\* user_id in self.cache
Registered(reg, u) == \E i \in DOMAIN reg : reg[i].user = u

\* self.cache[user_id]
CacheGet(reg, u) ==
    IF Registered(reg, u)
    THEN reg[CHOOSE i \in DOMAIN reg : reg[i].user = u]
    ELSE NoThread

\* self.cache[user_id] = thread: a key the dict holds keeps its position
CacheSet(reg, e) ==
    IF Registered(reg, e.user)
    THEN [i \in DOMAIN reg |-> IF reg[i].user = e.user THEN e ELSE reg[i]]
    ELSE Append(reg, e)

\* _find_from_cache: the first thread of the registry bound to the channel
FindFromCache(reg, c) ==
    IF \E i \in DOMAIN reg : reg[i].channel = c
    THEN reg[CHOOSE i \in DOMAIN reg :
                /\ reg[i].channel = c
                /\ \A j \in DOMAIN reg : reg[j].channel = c => i <= j]
    ELSE NoThread

Answer(m, op, c, read, e) ==
    [m EXCEPT !.ops = @ + 1,
              !.ret = [NoRet EXCEPT !.seq = m.ops + 1, !.op = op, !.chan = c,
                                    !.read = read, !.user = e.user,
                                    !.thread = e]]

Asked(m, check_cache, user_id, genesis, log) ==
    [m EXCEPT !.ret.check = check_cache, !.ret.given = user_id,
              !.ret.history = genesis, !.ret.log = log]

\* ModmailThread(manager, recipient, channel), stored in the registry
NewEntry(m, u, c) == [user |-> u, channel |-> c, inst |-> m.n + 1]

Store(m, e) == [m EXCEPT !.cache = CacheSet(@, e), !.n = @ + 1]

\* find(channel=c) with the registry scanned before the topic is read
FindCacheFirst(m, c) ==
    LET hit == FindFromCache(m.cache, c)
        u == MatchUserId(m.topic[c], "self")
    IN IF hit # NoThread
       THEN Answer(m, "find", c, {"cache"}, hit)
       ELSE IF u = None
            THEN Answer(m, "find", c, {"cache", "topic"}, NoThread)
            ELSE IF Registered(m.cache, u)
                 THEN Answer(m, "find", c, {"cache", "topic"},
                             CacheGet(m.cache, u))
                 ELSE Answer(Store(m, NewEntry(m, u, c)), "find", c,
                             {"cache", "topic"}, NewEntry(m, u, c))

\* find(channel=c): _find_from_channel reads the topic; the thread of the
\* user id it names is returned, made and stored when the registry has none;
\* a topic that names no user leads to _find_from_cache, and a thread found
\* there has its topic rewritten
Find(m, c) ==
    LET u == MatchUserId(m.topic[c], "self")
        hit == FindFromCache(m.cache, c)
    IN IF u # None
       THEN IF Registered(m.cache, u)
            THEN Answer(m, "find", c, {"topic"}, CacheGet(m.cache, u))
            ELSE Answer(Store(m, NewEntry(m, u, c)), "find", c, {"topic"},
                        NewEntry(m, u, c))
       ELSE IF hit # NoThread
            THEN Answer([m EXCEPT !.topic[c] = GenerateTopic(hit.user)],
                        "find", c, {"topic", "cache"}, hit)
            ELSE Answer(m, "find", c, {"topic", "cache"}, NoThread)

\* repair() with the Log Store asked before the channel history
RepairLogFirst(m, c, check_cache, user_id, genesis, log) ==
    LET hit == IF check_cache THEN FindFromCache(m.cache, c) ELSE NoThread
        uid == IF check_cache THEN None ELSE user_id
        r1 == IF check_cache THEN {"cache"} ELSE {}
        r2 == IF uid # None THEN r1
              ELSE IF log # None THEN r1 \cup {"log"}
              ELSE r1 \cup {"log", "history"}
        u == IF uid # None THEN uid
             ELSE IF log # None THEN log
             ELSE genesis
        out == IF hit # NoThread
               THEN Answer([m EXCEPT !.topic[c] = GenerateTopic(hit.user)],
                           "repair", c, r1, hit)
               ELSE IF u # None
                    THEN Answer([Store(m, NewEntry(m, u, c))
                                    EXCEPT !.topic[c] = GenerateTopic(u)],
                                "repair", c, r2, NewEntry(m, u, c))
                    ELSE Answer(m, "repair", c, r2, NoThread)
    IN Asked(out, check_cache, user_id, genesis, log)

\* repair(channel, check_cache, user_id).  genesis is the user id in the
\* footer of the handshake embed found among the ten oldest messages of the
\* channel, log the recipient of the log entry of the channel (None: not
\* found).  _find_from_cache assigns user_id, so a miss resets it to -1.
Repair(m, c, check_cache, user_id, genesis, log) ==
    LET hit == IF check_cache THEN FindFromCache(m.cache, c) ELSE NoThread
        uid == IF check_cache THEN None ELSE user_id
        r1 == IF check_cache THEN {"cache"} ELSE {}
        r2 == IF uid # None THEN r1
              ELSE IF genesis # None THEN r1 \cup {"history"}
              ELSE r1 \cup {"history", "log"}
        u == IF uid # None THEN uid
             ELSE IF genesis # None THEN genesis
             ELSE log
        out == IF hit # NoThread
               THEN Answer([m EXCEPT !.topic[c] = GenerateTopic(hit.user)],
                           "repair", c, r1, hit)
               ELSE IF u # None
                    THEN Answer([Store(m, NewEntry(m, u, c))
                                    EXCEPT !.topic[c] = GenerateTopic(u)],
                                "repair", c, r2, NewEntry(m, u, c))
                    ELSE Answer(m, "repair", c, r2, NoThread)
    IN Asked(out, check_cache, user_id, genesis, log)

\* what the channel history and the Log Store can answer for channel c
Found(c) == {None, Owner(c)}

LookupFrame ==
    UNCHANGED <<cache, thr, channels, logs, closures, timers, fired, tasks,
                nops, now, autoClose, overlap, closeReturned, createRet,
                persisted, started, notes, ctc, rvars>>

LookupBudget == manager.ops < MaxLookups

\* the topic of a thread channel is edited by hand or lost
TopicEdit(c, text) ==
    /\ LookupBudget
    /\ text # manager.topic[c]
    /\ manager' = [manager EXCEPT !.topic[c] = text, !.ops = @ + 1]
    /\ LookupFrame

\* bot.get_context for a message in channel c: find(channel=c)
CtxFind(c) ==
    /\ LookupBudget
    /\ manager' = Find(manager, c)
    /\ LookupFrame

\* cogs/modmail.py repair typed in channel c: ctx.modmail_thread is what
\* find(channel=c) returned; with a thread the topic is set when it names
\* no user, without one repair(channel, check_cache=False) is called
CmdRepair(c, genesis, log) ==
    /\ LookupBudget
    /\ LET f == Find(manager, c)
       IN manager' =
            IF f.ret.thread # NoThread
            THEN IF MatchUserId(f.topic[c], "any") = None
                 THEN [f EXCEPT !.topic[c] = GenerateTopic(f.ret.thread.user)]
                 ELSE f
            ELSE Repair(manager, c, FALSE, None, genesis, log)
    /\ LookupFrame

\* repair(channel) called with its defaults
RepairDefault(c, genesis, log) ==
    /\ LookupBudget
    /\ manager' = Repair(manager, c, TRUE, None, genesis, log)
    /\ LookupFrame

\* validate_thread_channels(skip_repair=False) reaching the open log entry
\* of channel c, whose recipient has no thread in the registry
ValidateRepair(c) ==
    /\ LookupBudget
    /\ ~Registered(manager.cache, Owner(c))
    /\ manager' = Repair(manager, c, FALSE, Owner(c), None, None)
    /\ LookupFrame

\* the bot has started: every thread channel carries the topic it was
\* created with and the registry is still empty
FindInit ==
    /\ InitFresh
    /\ InitState
    /\ notes = <<>>
    /\ RelayIdle
    /\ autoClose = 0
    /\ ctc = NoCtc
    /\ manager = [cache |-> <<>>,
                  topic |-> [c \in Chans |-> GenerateTopic(Owner(c))],
                  n |-> 0, ops |-> 0, ret |-> NoRet]

FindNext ==
    \/ \E c \in Chans, u \in Users : TopicEdit(c, GenerateTopic(u))
    \/ \E c \in Chans :
          TopicEdit(c, [bot |-> "other", user |-> Owner(c)])
    \/ \E c \in Chans : TopicEdit(c, NoTopic)
    \/ \E c \in Chans : CtxFind(c)
    \/ \E c \in Chans : \E genesis, log \in Found(c) :
          CmdRepair(c, genesis, log)
    \/ \E c \in Chans : \E genesis, log \in Found(c) :
          RepairDefault(c, genesis, log)
    \/ \E c \in Chans : ValidateRepair(c)

SpecFind == FindInit /\ [][FindNext]_vars

\* ------------------------------------------------- create_thread_channel
\* utils.create_thread_channel, one call and its recursive retries.  A
\* category is a number, None for no category; name is the channel name
\* format_channel_name gave ("plain") or gave with force_null ("null").
\* An action is one create_text_channel call with the handling of what it
\* raised, up to the next call.
MaxRetry == 5

NoError == [text |-> "none", category |-> None, name |-> "none"]

\* the call ends by raising e
CtcRaise(c, e) == [c EXCEPT !.pc = "done", !.result = "raised", !.raised = e]

\* setup() calls create_thread_channel(thread, recipient, category,
\* overwrites); config["fallback_category_id"] is fallback_id
CtcCall(category, fallback_id) ==
    /\ ctc.pc = "idle"
    /\ ctc' = [pc |-> "try", category |-> category, name |-> "plain",
               errors_raised |-> <<>>, attempts |-> 0, result |-> "none",
               raised |-> NoError, last |-> NoError,
               fallback_category_id |-> fallback_id,
               categories |-> {category, fallback_id} \ {None}]
    /\ UNCHANGED <<cache, thr, channels, logs, closures, timers, fired,
                   tasks, nops, now, autoClose, overlap, closeReturned,
                   createRet, persisted, started, notes, manager, rvars>>

\* the fallback category of a full category: the configured one when it
\* exists, has room and is another category, else a clone of the category
CtcFallback(c, e, usable, cloned) ==
    LET fb == IF /\ c.fallback_category_id # None
                 /\ usable
                 /\ c.fallback_category_id # c.category
              THEN c.fallback_category_id
              ELSE None
        new == Cardinality(c.categories) + 1
    IN IF fb # None
       THEN [c EXCEPT !.category = fb, !.name = "plain"]
       ELSE IF cloned
            THEN [c EXCEPT !.categories = @ \cup {new},
                           !.fallback_category_id = new,
                           !.category = new, !.name = "plain"]
            ELSE LET x == [text |-> "clone", category |-> c.category,
                           name |-> "Fallback Modmail"]
                 IN CtcRaise([c EXCEPT !.last = x], x)

\* create_thread_channel that retries whatever its error list holds, up to
\* max_retry
CtcAttemptAgain(text, usable, cloned) ==
    /\ ctc.pc = "try"
    /\ text = "full" => ctc.category # None
    /\ LET a == [ctc EXCEPT !.attempts = @ + 1]
           error == [text |-> text, category |-> ctc.category,
                     name |-> ctc.name]
           b == [a EXCEPT !.last = error]
           r == [b EXCEPT !.errors_raised = Append(@, error)]
       IN ctc' =
            IF text = "ok"
            THEN [a EXCEPT !.pc = "done", !.result = "channel"]
            ELSE IF Len(ctc.errors_raised) >= MaxRetry
                 THEN CtcRaise(b, error)
                 ELSE IF text = "full"
                      THEN CtcFallback(r, error, usable, cloned)
                      ELSE IF text = "words"
                           THEN [r EXCEPT !.name = "null"]
                           ELSE CtcRaise(r, error)
    /\ UNCHANGED <<cache, thr, channels, logs, closures, timers, fired,
                   tasks, nops, now, autoClose, overlap, closeReturned,
                   createRet, persisted, started, notes, manager, rvars>>

\* guild.create_text_channel(name, category, ...) has returned ("ok") or
\* raised HTTPException: "full" is 'Maximum number of channels in category
\* reached', "words" is 'Contains words not allowed', "other" any other
\* text (a channel outside every category meets no full category).
\* usable: the configured fallback category exists and has fewer than 50
\* channels; cloned: category.clone() returned.
CtcAttempt(text, usable, cloned) ==
    /\ ctc.pc = "try"
    /\ text = "full" => ctc.category # None
    /\ LET a == [ctc EXCEPT !.attempts = @ + 1]
           error == [text |-> text, category |-> ctc.category,
                     name |-> ctc.name]
           b == [a EXCEPT !.last = error]
           r == [b EXCEPT !.errors_raised = Append(@, error)]
       IN ctc' =
            IF text = "ok"
            THEN [a EXCEPT !.pc = "done", !.result = "channel"]
            ELSE IF \/ error \in Range(ctc.errors_raised)
                    \/ Len(ctc.errors_raised) >= MaxRetry
                 THEN CtcRaise(b, error)
                 ELSE IF text = "full"
                      THEN CtcFallback(r, error, usable, cloned)
                      ELSE IF text = "words"
                           THEN [r EXCEPT !.name = "null"]
                           ELSE CtcRaise(r, error)
    /\ UNCHANGED <<cache, thr, channels, logs, closures, timers, fired,
                   tasks, nops, now, autoClose, overlap, closeReturned,
                   createRet, persisted, started, notes, manager, rvars>>

ChannelInit ==
    /\ InitFresh
    /\ InitState
    /\ notes = <<>>
    /\ RelayIdle
    /\ autoClose = 0
    /\ manager = NoManager
    /\ ctc = NoCtc

ChannelNext ==
    \/ \E category \in {None, 1}, fallback_id \in {None, 1, 2} :
          CtcCall(category, fallback_id)
    \/ \E text \in {"ok", "full", "words", "other"},
          usable, cloned \in BOOLEAN : CtcAttempt(text, usable, cloned)

\* the platform answers every call
LiveChannel == ChannelInit /\ [][ChannelNext]_vars /\ WF_vars(ChannelNext)

\* ------------------------------------------------ create() to the very end
\* The first DM of a recipient creates the thread; further DMs arrive while
\* the registered thread is not READY, one handler at a time waiting in
\* find().  The event loop resumes every coroutine whose await can complete:
\* the awaits are platform and database calls, which return or raise, and
\* wait_until_ready, which wait_for bounds to 25 s.
LiveCreateEvent ==
    /\ \/ nops.ev = 0
       \/ /\ cache # None /\ ~thr[cache].ready
          /\ \A k \in tasks : k.pc # "find_wait"
    /\ nops.ev < MaxSchedOps
    /\ MsgArrive

CreateResume ==
    \/ \E k \in tasks, timeout, confirm \in BOOLEAN :
          FindWaitDone(k, timeout, confirm)
    \/ \E k \in tasks, confirm \in BOOLEAN : CreateStart(k, confirm)
    \/ \E k \in tasks, accept \in BOOLEAN : ConfirmDone(k, accept)
    \/ \E k \in tasks, created \in BOOLEAN : SetupChan(k, created)
    \/ \E k \in tasks, stored \in BOOLEAN : SetupLog(k, stored)
    \/ \E k \in tasks, timeout \in BOOLEAN : SendWaitDone(k, timeout)
    \/ \E k \in tasks, confirm \in BOOLEAN : CloseReturn(k, confirm)

LiveCreateNext == LiveCreateEvent \/ CreateResume

LiveCreate == CreateInit /\ [][LiveCreateNext]_vars /\ WF_vars(CreateResume)

\* ------------------------------------------------------------------ claims
Threads == 1..Len(thr)

\* a thread made by create() that exists: not cancelled, its setup not
\* failed, and either being set up or bound to a channel of the guild
Exists(t) ==
    /\ thr[t].via = "create"
    /\ ~thr[t].cancelled
    /\ ~thr[t].failed
    /\ \/ \E k \in tasks : k.op = "setup" /\ k.th = t
       \/ thr[t].channel \in channels

\* C1: whatever the interleaving of concurrent create(R) calls, they return
\* one thread instance (cancelled and failed threads aside), and at every
\* instant at most one non-cancelled thread and at most one thread channel
\* exist for the recipient.
C1_OneThreadPerRecipient ==
    /\ Cardinality(channels) <= 1
    /\ Cardinality({t \in Threads : Exists(t)}) <= 1
    /\ Cardinality({t \in createRet :
                        ~thr[t].cancelled /\ ~thr[t].failed}) <= 1

\* C2: close() called twice on the same thread finalizes its log entry and
\* sends the close notification exactly once.
C2_CloseTwiceOnce ==
    \A t \in Threads : thr[t].nfinal <= 1 /\ thr[t].nnotice <= 1

\* C3: from the eviction of a thread until its close completes, no find()
\* re-registers a thread for the recipient: the registry holds no entry that
\* a find() made.
C3_NoResurrection ==
    \A k \in tasks :
        Closing(k) => cache = None \/ thr[cache].via = "create"

C4_ReissueReplaces ==
    ~overlap =>
        /\ \A t \in Threads, kind \in BOOLEAN :
              Cardinality({x \in timers : x.th = t /\ x.auto = kind}) <= 1
        /\ \A f \in fired : ~f.cc

\* a close(after>0) issued after the previous one had completed has replaced
\* the sleeping timer of its kind: the new timer sleeps, the old one is gone
C4_Witness ==
    /\ ~overlap
    /\ \E x \in timers :
          /\ x.prev # None
          /\ \A y \in timers : y.id # x.prev
          /\ \A f \in fired : f.id # x.prev

\* C5: with auto-close configured, after a send() no inactivity timer of
\* the thread is left armed to fire earlier than one full period after the
\* send, and no manual timer that was armed before the send stays armed or
\* fires.
C5_SendRestartsTimer ==
    autoClose > 0 =>
        /\ \A x \in timers :
              x.auto => x.deadline >= thr[x.th].lastSend + autoClose
        /\ \A x \in timers : ~(~x.auto /\ x.snd)
        /\ \A f \in fired : ~(~f.auto /\ f.snd)

\* C6: after a successful reply, the manual close that was pending when the
\* reply started is cancelled: its timer does not sleep, its PendingClosure
\* is not stored, and it never fires.
C6_ReplyCancelsManualClose ==
    \A t \in Threads : \A r \in thr[t].replied :
        /\ \A x \in timers : x.id # r.m
        /\ closures.by # r.m
        /\ \A f \in fired : f.id # r.m

\* a reply succeeded while a manual close was pending, and the thread is
\* open, its log entry open, at the time the close was due
C6_Witness ==
    \E t \in Threads : \E r \in thr[t].replied :
        /\ now >= r.deadline
        /\ cache = t
        /\ logs[thr[t].channel] = "open"

\* C7: the timer armed by close(after=N) called at time t does not fire
\* (evict the thread, finalize its log entry) before t+N.
C7_NeverFiresEarly ==
    \A f \in fired : ~f.early

\* a timer has fired and its _close has evicted the thread
C7_Witness ==
    /\ fired # {}
    /\ \E k \in tasks : k.sched /\ Closing(k)

\* C8: a timer that a cancel_closure() for its kind went over before it
\* fired never closes the thread.
C8_CancelledNeverCloses ==
    \A f \in fired : f.cc => ~f.evicted

\* C10: every armed close timer has a stored PendingClosure that describes
\* it (same close() call, same kind).
C10_TimerHasRecord ==
    \A x \in timers : closures.by = x.id /\ closures.auto = x.auto

\* C11: at start-up, a PendingClosure whose thread is found and whose fire
\* time has passed makes the thread close at once (no timer is armed for
\* it); otherwise the timer armed for it is due at the persisted fire time,
\* its delay being what is left of it, and it does not fire before.
C11_RestartKeepsFireTime ==
    /\ \A x \in timers :
          x.id = ReadyId =>
              /\ x.deadline = persisted.time
              /\ x.after = persisted.time - x.t0
              /\ x.after > 0
    /\ \A k \in tasks :
          k.id = ReadyId /\ InClose(k) /\ persisted.time <= k.t0 =>
              k.after = 0 /\ k.pc # "arm_wait"
    /\ \A f \in fired : f.id = ReadyId => ~f.early

\* a process started after time 0 has re-armed the timer of a persisted
\* closure for the remaining delay
C11_Witness ==
    \E x \in timers : x.id = ReadyId /\ x.t0 > 0 /\ x.after < persisted.time

\* C19: once the start-up reconciliation has run, a thread channel that is
\* not in the guild has no open log entry and no registry entry bound to
\* it, and the entry of a channel that no close() finalized was closed by
\* validate_thread_channels with the bot as closer.
C19_ReconcileDeleted ==
    started =>
        \A c \in 1..MaxThreads :
            c \notin channels =>
                /\ logs[c] # "open"
                /\ cache = None \/ thr[cache].channel # c
                /\ (logs[c] # "none"
                        /\ \A t \in Threads :
                              thr[t].channel = c => thr[t].nfinal = 0)
                      => logs[c] = "synthetic"

\* the process started with the channel of an open entry gone, and the
\* reconciliation has closed the entry
C19_Witness ==
    started /\ 1 \notin channels /\ logs[1] = "synthetic" /\ cache = None

\* what create() leaves of a thread whose confirmation was declined or
\* timed out: out of the registry, no setup(), no channel, no log entry
Declined(t) ==
    /\ cache # t
    /\ \A k \in tasks : ~(k.op = "setup" /\ k.th = t)
    /\ thr[t].channel = None
    /\ t \notin channels
    /\ logs[t] = "none"

\* a step in which create() marks thread t cancelled
Declines(t) ==
    /\ t \in Threads
    /\ ~thr[t].cancelled
    /\ thr'[t].cancelled

\* C20: a thread whose confirmation prompt was declined or timed out is
\* cancelled and stays out of the registry, has no setup(), no channel and
\* no log entry; the step of create() that declines it returns it, removes
\* its own registry entry and changes nothing else (no channel, no log
\* entry, no PendingClosure, no timer).
C20_DeclineChangesNothing ==
    /\ [](\A t \in Threads : thr[t].cancelled => Declined(t))
    /\ [][\A t \in 1..MaxThreads :
            Declines(t) =>
                /\ cache = t
                /\ cache' = None
                /\ t \in createRet'
                /\ channels' = channels
                /\ logs' = logs
                /\ closures' = closures
                /\ timers' = timers]_vars

C13_UnreachableRecipient ==
    \A r \in replies : r.dm = None =>
        /\ ~r.raised
        /\ r.ch = None
        /\ \E m \in chanHist : m.id = r.err /\ m.kind = "info" /\ m.by = r.id
        /\ \A m \in chanHist : m.by = r.id => m.kind \in {"staff", "info"}
        /\ \A i \in DOMAIN messages : messages[i].by # r.id
        /\ \A k \in relays : k.id # r.id

C13_Witness ==
    \E r \in replies :
        /\ r.dm = None /\ r.ch = None
        /\ \E m \in chanHist : m.id = r.err /\ m.kind = "info"
\* C14: every message id a log entry refers to, as its key or as a linked
\* id, is the id of a message that had been sent when the entry was queued
\* for the log: an entry is never logged, nor on its way to the log, without
\* its renderings having been sent.
C14_VisibleBeforeLogged ==
    LET Refs(e) == {e.message_id} \cup Range(e.linked_ids)
        Sent == 1..(nextId - 1)
    IN  /\ \A i \in DOMAIN messages : Refs(messages[i]) \subseteq Sent
        /\ \A k \in relays : k.pc \in {"append", "reply_log"} =>
               /\ Refs(k.entry) \subseteq Sent
               /\ k.a \in Ids(chanHist)
               /\ k.entry.linked_ids # <<>> =>
                      k.entry.linked_ids = <<k.a, k.b>> /\ k.b \in Ids(dmHist)

C14_Witness ==
    /\ \E k \in relays : k.op = "send" /\ k.pc = "append" /\ k.a \in Ids(chanHist)
    /\ \E i \in DOMAIN messages : messages[i].by # None
\* C15: for every log entry with linked ids <<A, B>> whose staff rendering A
\* and DM rendering B both still exist, resolving from A and resolving from
\* B (in either direction) both succeed, yield that same entry, and give the
\* other rendering as the counterpart.
C15_BothSidesResolve ==
    \A i \in DOMAIN messages :
        LET e == messages[i]
        IN  (/\ Len(e.linked_ids) = 2
             /\ e.linked_ids[1] \in Ids(chanHist)
             /\ e.linked_ids[2] \in Ids(dmHist)) =>
            LET A == e.linked_ids[1]
                B == e.linked_ids[2]
                oa == FindMessagePayload(MsgOf(chanHist, A), TRUE, TRUE)
                ob == FindDMMessagePayload(MsgOf(dmHist, B), TRUE, FALSE)
            IN  /\ oa.res = "ok" /\ ob.res = "ok"
                /\ oa.e = e /\ ob.e = e
                /\ oa.linked = B /\ ob.linked = A
\* C16 as stated: no resolution that starts from a DM message, and none of
\* a staff-channel message whose logged payload was authored by the
\* recipient, succeeds with either_direction = FALSE, while a staff-authored
\* payload resolves from the staff channel whatever either_direction is.
C16_EitherDirectionOnly ==
    /\ \A m \in dmHist :
           FindDMMessagePayload(m, FALSE, FALSE).res # "ok"
    /\ \A m \in chanHist :
           LET e == GetMessagePayload(m.id)
           IN  /\ (e # NoEntry /\ ~e.mod) =>
                      FindMessagePayload(m, FALSE, TRUE).res # "ok"
               /\ (e # NoEntry /\ e.mod) =>
                      FindMessagePayload(m, FALSE, TRUE) =
                          FindMessagePayload(m, TRUE, TRUE)

\* C16 amended: with either_direction = FALSE a resolution fails with
\* ThreadMessageNotFound when it starts from a DM message of the bot, and
\* does not succeed when it starts from a staff-channel message whose logged
\* payload was authored by the recipient.  A resolution that starts from a DM
\* message of the recipient, or from a staff-channel message with a
\* staff-authored payload, has the same outcome whatever either_direction is.
C16_DirectionRule ==
    /\ \A m \in dmHist :
           IF m.bot
           THEN FindDMMessagePayload(m, FALSE, FALSE).res =
                    "ThreadMessageNotFound"
           ELSE FindDMMessagePayload(m, FALSE, FALSE) =
                    FindDMMessagePayload(m, TRUE, FALSE)
    /\ \A m \in chanHist :
           LET e == GetMessagePayload(m.id)
               o == FindMessagePayload(m, FALSE, TRUE)
           IN  /\ (e # NoEntry /\ ~e.mod) =>
                      /\ o.res # "ok"
                      /\ (m.id \notin ignored_messages /\ m.bot
                             /\ e.linked_ids # <<>>) =>
                             o.res = "ThreadMessageNotFound"
               /\ (e # NoEntry /\ e.mod) =>
                      o = FindMessagePayload(m, TRUE, TRUE)

C16_Witness ==
    /\ resolved.via = "edit_dm" /\ ~resolved.either /\ resolved.res = "ok"
    /\ resolved.linked \in Ids(chanHist)
    /\ \E m \in dmHist :
           m.bot /\ FindDMMessagePayload(m, TRUE, FALSE).res = "ok"
\* C17: a resolution never succeeds with a payload that has linked ids and
\* no counterpart; when the payload of a message has linked ids and none of
\* them is found in the history of the other side, the resolution fails with
\* DMMessageNotFound or ThreadMessageNotFound.
C17_BrokenLinkIsNotFound ==
    /\ \A m \in chanHist :
           LET e == GetMessagePayload(m.id)
               broken == /\ m.bot /\ m.id \notin ignored_messages
                         /\ e.linked_ids # <<>>
                         /\ FindLinkedMessage(dmHist, e) = None
           IN  \A either \in BOOLEAN :
                   LET o == FindMessagePayload(m, either, TRUE)
                   IN  /\ (o.res = "ok" /\ o.e.linked_ids # <<>>) =>
                              /\ o.linked \in Ids(dmHist)
                              /\ o.linked \in Range(o.e.linked_ids)
                       /\ broken => o.res \in NotFound
    /\ \A m \in dmHist :
           LET e == GetMessagePayload(m.id)
               broken == /\ m.id \notin ignored_messages
                         /\ e.linked_ids # <<>>
                         /\ FindLinkedMessage(chanHist, e) = None
           IN  \A either \in BOOLEAN :
                   LET o == FindDMMessagePayload(m, either, FALSE)
                   IN  /\ (o.res = "ok" /\ o.e.linked_ids # <<>>) =>
                              /\ o.linked \in Ids(chanHist)
                              /\ o.linked \in Range(o.e.linked_ids)
                       /\ broken => o.res \in NotFound
    /\ resolved.res = "ok" =>
           resolved.entry.linked_ids = <<>> \/ resolved.linked # None

C17_Witness ==
    /\ resolved.res \in NotFound /\ resolved.either
    /\ GetMessagePayload(resolved.id).linked_ids # <<>>
    /\ \A x \in Range(GetMessagePayload(resolved.id).linked_ids) :
           x \in Ids(chanHist) \cup Ids(dmHist)
\* C18: the delete event that follows a delete of the delete command is
\* recognised through _deleted_messages: its handler resolves nothing,
\* deletes nothing and forgets the id; so the staff rendering and its DM
\* counterpart are deleted by the command alone, and no event handler is
\* deleting the counterpart a second time.
C18_CommandDeleteOnce ==
    /\ \A e \in delEvents : e.cmd =>
           /\ e.recognised
           /\ e.res = "" /\ e.mirrored = None
           /\ e.id \notin deleted_messages
           /\ e.id \notin Ids(chanHist)
    /\ \A k \in relays : (k.op = "on_message_delete" /\ k.cmd) =>
           k.m.id \in deleted_messages
    /\ \A k \in relays, c \in relays :
           (k.op = "delete" /\ c.op = "delete" /\ c.cmd /\ ~k.cmd) => k.b # c.b

C18_Witness ==
    /\ \E e \in delEvents : e.cmd /\ e.recognised /\ e.id = 1
    /\ 1 \notin Ids(chanHist) /\ 2 \notin Ids(dmHist)
    /\ deleted_messages = {} /\ relays = {}
\* C21: when one of the side effects of a _close fails (the config persist,
\* the notification in the log channel, the closing notice to the
\* recipient, the deletion of the channel), every other side effect of
\* that _close is carried out and the close is not aborted: _close does
\* not raise, and the thread is evicted with its log entry finalized.
C21_SideEffectsIndependent ==
    \A t \in Threads : \A e \in thr[t].effects :
        /\ e.done = e.asked \ {Awaitable(e.failed)}
        /\ "notice" \in e.done => thr[t].nnotice >= 1
        /\ "delete" \in e.done => thr[t].channel \notin channels
        /\ cache # t
        /\ thr[t].nfinal >= 1
        /\ ~e.raised
\* setup() of thread t is past create_log_entry, which failed: the thread is
\* bound to its channel and the channel has no log entry
Unlogged(t) ==
    /\ thr[t].via = "create"
    /\ thr[t].channel # None
    /\ logs[thr[t].channel] = "none"
    /\ \A k \in tasks : ~(k.op = "setup" /\ k.th = t)

\* C22: when create_log_entry fails in setup(), the thread has its channel
\* and is READY, and the step leaves the registry as it is; a close of such
\* a thread that evicted it completes, every side effect carried out, its
\* notice reporting that the log url could not be resolved.
C22_LogFailureKeepsThread ==
    /\ [](\A t \in Threads : Unlogged(t) =>
             /\ thr[t].ready /\ ~thr[t].failed
             /\ thr[t].nfinal = 0
             /\ \A r \in closeReturned :
                    (r.th = t /\ r.own) => ~r.hadLog /\ r.undone = {})
    /\ [][\A t \in 1..MaxThreads :
             (t \in Threads /\ ~Unlogged(t) /\ Unlogged(t)') =>
                 /\ thr'[t].ready
                 /\ cache' = cache
                 /\ channels' = channels]_vars

C22_Witness ==
    \E t \in Threads :
        /\ Unlogged(t) /\ cache = None
        /\ \E r \in closeReturned : r.th = t /\ r.own /\ ~r.hadLog
        /\ thr[t].nnotice = 1
\* an edit of staff rendering k.a that has returned and that no other edit
\* of the same message overlapped or followed
Edited(k) ==
    /\ k.op = "edit" /\ k.pc = "done"
    /\ \A j \in relays \ {k} : j.op = "edit" => j.a # k.a

\* C23: after an edit of a linked staff-side message, the staff embed's
\* description and the logged content are the new content, and the DM
\* counterpart was updated in exactly one way: its embed's description if
\* it has an embed, otherwise its text, rewritten as (tag) author: content
\* with the anonymous tag and name for an anonymous payload.
C23_EditUpdatesBothSides ==
    \A k \in relays : (Edited(k) /\ k.b # None) =>
        LET a == MsgOf(chanHist, k.a)
            b == MsgOf(dmHist, k.b)
            e == GetMessagePayload(k.a)
        IN  /\ a.embed = k.content
            /\ e.message_id = k.a /\ e.content = k.content /\ e.edited
            /\ \/ b.embed = k.content /\ b.text = NoText
               \/ /\ b.embed = NoEmbed
                  /\ b.text.content = k.content
                  /\ b.text = PlainMessage(e.type, k.author, k.content)
                  /\ e.type = "anonymous" => b.text.tag = AnonTag

C23_Witness ==
    \E k \in relays :
        /\ Edited(k) /\ k.b # None /\ k.author = 2 /\ k.entry.type = "anonymous"
        /\ MsgOf(dmHist, k.b).embed = NoEmbed
        /\ MsgOf(dmHist, k.b).text.content = k.content
        /\ \E j \in relays : Edited(j) /\ j.b # None /\ MsgOf(dmHist, j.b).embed = j.content
\* C26: whatever the interleaving of overlapping send() calls on a thread,
\* at most one inactivity timer of the thread sleeps at any instant, and no
\* inactivity timer that a later restart went over ever fires.
C26_OneAutoCloseTimer ==
    /\ \A t \in Threads :
          Cardinality({x \in timers : x.th = t /\ x.auto}) <= 1
    /\ \A f \in fired : f.auto => ~f.cc
\* the _close that timer f started is still running
Running(f) == \E k \in tasks : k.id = f.id /\ k.sched /\ Closing(k)

\* C30: the _close that a fired timer started and that evicted the thread
\* is not stopped by a cancel_closure() that runs afterwards: the thread
\* stays out of the registry and, once that _close is over, its log entry
\* is closed.
C30_FiredCloseCompletes ==
    \A f \in fired : f.evicted =>
        /\ cache # f.th
        /\ \/ Running(f)
           \/ /\ thr[f.th].nfinal >= 1
              /\ logs[thr[f.th].channel] = "closed"

\* a cancel_closure() ran on the thread after a fired timer had evicted it,
\* and that timer's _close is over
C30_Witness ==
    \E f \in fired :
        /\ f.evicted /\ thr[f.th].late /\ ~Running(f)
        /\ logs[thr[f.th].channel] = "closed"
\* C27: a reaction on a staff-channel rendering whose log entry has been
\* appended and whose counterpart is within the DM channel's history
\* resolves to the payload and the counterpart, whether or not the
\* rendering was resolved before while the append was in flight.
C27_ResolvesOnceLogged ==
    [][(/\ nrelay' = nrelay + 1
        /\ UNCHANGED <<chanHist, dmHist, relays, messages>>
        /\ resolved'.via = "react_chan"
        /\ GetMessagePayload(resolved'.id) # NoEntry
        /\ FindLinkedMessage(dmHist, GetMessagePayload(resolved'.id)) # None
        /\ MsgOf(chanHist, resolved'.id).bot)
           => /\ resolved'.res = "ok"
              /\ resolved'.entry = GetMessagePayload(resolved'.id)
              /\ resolved'.linked # None]_vars
\* the handshake embed of thread t is in its channel
Handshaken(t) == \E m \in chanHist : m.kind = "genesis" /\ m.by = t

\* the creation notice of thread t is in the DM channel of the recipient
Notified(t) == \E m \in dmHist : m.kind = "creation" /\ m.by = t

\* C24: when a recipient who has no thread and no cooldown sends a DM and
\* no platform call fails, eventually a thread of theirs is in the
\* registry and READY, its handshake embed is in its channel and the
\* creation notice is in the recipient's DM channel.
C24_FirstContactOpensThread ==
    (cache = None /\ \E k \in tasks : k.op = "msg" /\ k.pc = "to_create")
        ~> (\E t \in 1..Len(thr) :
               /\ cache = t /\ thr[t].ready
               /\ thr[t].channel \in channels
               /\ Handshaken(t) /\ Notified(t))

C24_Witness ==
    \E t \in Threads :
        /\ cache = t /\ thr[t].ready /\ thr[t].tail.ready
        /\ Handshaken(t) /\ Notified(t)
        /\ \E m \in chanHist : m.kind = "relay" /\ m.by = t

\* the note posted for stored note n by the replay of thread t
Replayed(t, n) ==
    {m \in chanHist : m.kind = "note" /\ m.by = t /\ m.id = n.message_id}

\* the message is logged as SYSTEM, or its append is in flight, or the
\* channel of thread t has no log document
LoggedAsSystem(t, m) ==
    \/ \E i \in DOMAIN messages :
          messages[i].message_id = m.id /\ messages[i].type = "system"
    \/ \E k \in relays : k.pc = "append" /\ k.entry.message_id = m.id
                            /\ k.entry.type = "system"
    \/ logs[thr[t].channel] = "none"

C28_LifecycleMonotone ==
    /\ [](\A t \in Threads : thr[t].thread_create <= 1)
    /\ [][\A t \in 1..Len(thr) :
             /\ thr[t].ready => thr'[t].ready
             /\ cache # t => cache' # t]_vars

\* C29: a thread made by create() is READY only when its channel exists
\* and holds its handshake embed, and every relay in the channel was posted
\* after the handshake embed.
C29_ReadyAfterHandshake ==
    \A t \in Threads : thr[t].via = "create" =>
        /\ thr[t].ready => thr[t].channel \in channels /\ Handshaken(t)
        /\ \A m \in chanHist : (m.kind = "relay" /\ m.by = t) =>
              \E g \in chanHist :
                  g.kind = "genesis" /\ g.by = t /\ g.newer > m.newer
\* C33: the first resolution of a staff-channel message that is not an embed
\* of the bot raises MalformedThreadMessage and puts its id in
\* _ignored_messages; while the id is there, a resolution of the message
\* raises IgnoredMessage and starts no read of the Log Store.
C33_MalformedThenIgnored ==
    [][\A m \in chanHist :
          (/\ ~m.bot
           /\ resolved' # resolved
           /\ resolved'.via = "react_chan" /\ resolved'.id = m.id)
          => /\ resolved'.res = IF m.id \in ignored_messages
                                THEN "IgnoredMessage"
                                ELSE "MalformedThreadMessage"
             /\ m.id \in ignored_messages'
             /\ relays' = relays]_vars

C33_Witness ==
    /\ resolved.via = "react_chan" /\ resolved.res = "IgnoredMessage"
    /\ \E m \in chanHist : m.id = resolved.id /\ ~m.bot
    /\ resolved.id \in ignored_messages

\* C34: when the Log Store holds no payload for an embed of the bot, the
\* resolution raises ThreadMessageNotFound if an earlier resolution has
\* validated the same message and put it in _ignored_messages by the time
\* the answer comes; otherwise it raises IgnoredMessage and adds the id.
C34_AbsentPayload ==
    [][\A k \in relays :
          (/\ k.op = "resolve" /\ k \notin relays'
           /\ GetMessagePayload(k.a) = NoEntry)
          => /\ resolved'.id = k.a
             /\ IF k.a \in ignored_messages
                THEN /\ resolved'.res = "ThreadMessageNotFound"
                     /\ ignored_messages' = ignored_messages
                ELSE /\ resolved'.res = "IgnoredMessage"
                     /\ ignored_messages' = ignored_messages \cup {k.a}]_vars

C34_Witness ==
    /\ resolved.via = "react_chan" /\ resolved.res = "ThreadMessageNotFound"
    /\ \E m \in chanHist : m.id = resolved.id /\ m.bot
    /\ GetMessagePayload(resolved.id) = NoEntry
    /\ resolved.id \in ignored_messages
    /\ relays = {}

\* C36: a thread instance only removes itself from the registry: whenever
\* the entry of R stops referring to instance t, the step is one of t's own
\* (a _close of t that evicts, the failure of t's setup, t's create being
\* declined); no step of another instance removes it.
C36_RemovesOnlyItself ==
    [][\A t \in Threads :
          (cache = t /\ cache' = None)
          => \/ \E k \in tasks' \ tasks : Closing(k) /\ k.th = t
             \/ thr'[t].failed /\ ~thr[t].failed
             \/ thr'[t].cancelled /\ ~thr[t].cancelled]_vars

\* C37: once a _close() of a thread has completed (a close(after=0) that
\* evicted the thread has returned), the thread has no sleeping timer, and
\* no PendingClosure is stored for its recipient while it is the only
\* instance made for R.
C37_ClosedThreadHasNoTimer ==
    \A r \in closeReturned :
        r.own => /\ \A x \in timers : x.th # r.th
                 /\ Len(thr) = 1 => closures = NoClosure

\* C39: a log entry is finalized at most once: once the entry of a channel
\* is closed, no step posts a closing update (closer, closed_at,
\* close_message) to it again, through whichever thread instance is bound
\* to the channel.
C39_FinalizedOnce ==
    [][\A t \in Threads :
          (thr[t].channel # None /\ logs[thr[t].channel] = "closed")
          => thr'[t].nfinal = thr[t].nfinal]_vars

\* a caller suspended in wait_until_ready
Waiting(k) == k.pc \in {"find_wait", "create_wait", "send_wait"}

Looked(op, c) ==
    /\ manager'.ret.seq # manager.ret.seq
    /\ manager'.ret.op = op
    /\ manager'.ret.chan = c

\* C31 as stated: find(channel=C) consults the cache first: a cached thread
\* bound to C is returned whatever the recovery tag of C says.
C31_CacheFirst ==
    [][\A c \in Chans :
          (Looked("find", c) /\ FindFromCache(manager.cache, c) # NoThread)
          => manager'.ret.thread = FindFromCache(manager.cache, c)]_vars

\* C31, amended: find(channel=C) reads the recovery tag of C first.  When
\* the tag names a recipient, the registry entry of that recipient is
\* returned, whichever channel it is bound to, and when the registry has
\* none a thread of that recipient bound to C is made, stored and returned,
\* so that the next lookup hits the cache.  Only when the tag names no
\* recipient is the registry scanned for a thread bound to C, whose tag is
\* then rewritten; without one the result is null and nothing changes.
C31_TagFirst ==
    [][\A c \in Chans :
          Looked("find", c)
          => LET u == MatchUserId(manager.topic[c], "self")
                 r == manager'.ret
             IN IF u # None
                THEN /\ r.thread.user = u
                     /\ CacheGet(manager'.cache, u) = r.thread
                     /\ IF Registered(manager.cache, u)
                        THEN /\ r.thread = CacheGet(manager.cache, u)
                             /\ manager'.cache = manager.cache
                        ELSE /\ r.thread.channel = c
                             /\ manager'.cache = Append(manager.cache,
                                                        r.thread)
                ELSE /\ r.thread = FindFromCache(manager.cache, c)
                     /\ manager'.cache = manager.cache
                     /\ IF r.thread # NoThread
                        THEN MatchUserId(manager'.topic[c], "self")
                                = r.thread.user
                        ELSE manager'.topic = manager.topic]_vars

\* find(channel=C) returned the thread of the recipient the tag names while
\* the registry holds another thread, which is bound to C
C31_Witness ==
    /\ manager.ret.op = "find"
    /\ manager.ret.thread # NoThread
    /\ FindFromCache(manager.cache, manager.ret.chan) # NoThread
    /\ FindFromCache(manager.cache, manager.ret.chan) # manager.ret.thread

\* what each strategy of repair() holds for channel c before the call: the
\* recipient of the first cached thread bound to c, the user id of the
\* handshake embed, the recipient of the log entry
Holds(r, c) ==
    [cache |-> FindFromCache(manager.cache, c).user,
     history |-> r.history,
     log |-> r.log]

Strategies == <<"cache", "history", "log">>

\* the strategies up to and including the first that holds a recipient
Consulted(h) ==
    {Strategies[i] : i \in {j \in DOMAIN Strategies :
                               \A l \in 1..(j - 1) : h[Strategies[l]] = None}}

\* the recipient the first successful strategy holds, None when all fail
FirstSuccess(h) ==
    IF \A i \in DOMAIN Strategies : h[Strategies[i]] = None THEN None
    ELSE h[Strategies[CHOOSE i \in DOMAIN Strategies :
                         /\ h[Strategies[i]] # None
                         /\ \A l \in 1..(i - 1) : h[Strategies[l]] = None]]

\* C32: repair(channel) tries the cache scan by channel, then the handshake
\* signature in the earliest messages, then the Log Store by channel id; a
\* later strategy is consulted only if the earlier ones failed, the
\* recipient of the first success is used and the recovery tag is rewritten
\* for it; if all fail the result is null and the registry and the channel
\* topics are unchanged.
C32_RepairOrder ==
    [][\A c \in Chans :
          (Looked("repair", c) /\ manager'.ret.check)
          => LET r == manager'.ret
                 h == Holds(r, c)
             IN /\ r.read = Consulted(h)
                /\ r.user = FirstSuccess(h)
                /\ IF r.user # None
                   THEN /\ manager'.topic[c] = GenerateTopic(r.user)
                        /\ r.thread.user = r.user
                        /\ r.thread.channel = c
                        /\ CacheGet(manager'.cache, r.user) = r.thread
                   ELSE /\ r.thread = NoThread
                        /\ manager'.cache = manager.cache
                        /\ manager'.topic = manager.topic]_vars

\* a repair that found no cached thread and no handshake embed settled on
\* the recipient of the log entry, stored its thread and rewrote the topic
C32_Witness ==
    /\ manager.ret.op = "repair" /\ manager.ret.check
    /\ manager.ret.read = {"cache", "history", "log"}
    /\ manager.ret.user # None
    /\ manager.ret.log = manager.ret.user
    /\ manager.topic[manager.ret.chan] = GenerateTopic(manager.ret.user)
    /\ \E i \in DOMAIN manager.cache :
          /\ manager.cache[i] = manager.ret.thread
          /\ manager.cache[i].channel = manager.ret.chan

\* C38: repair(channel) never replaces a live registry entry: when the
\* recipient it recovers has a registered thread bound to another channel,
\* which still exists, that entry is left as it is.
C38_RepairKeepsLiveEntry ==
    [][\A c \in Chans, u \in Users :
          (/\ Looked("repair", c)
           /\ manager'.ret.user = u
           /\ Registered(manager.cache, u)
           /\ CacheGet(manager.cache, u).channel # c)
          => CacheGet(manager'.cache, u) = CacheGet(manager.cache, u)]_vars

\* C35: create_thread_channel always terminates: it never retries after an
\* error it has already recorded (same text, category and name), it makes
\* at most max_retry + 1 channel-creation attempts, and it ends by returning
\* a channel or by raising the last platform error.
C35_CreateChannelEnds ==
    /\ <>(ctc.pc = "done")
    /\ [](ctc.pc # "idle" =>
            /\ ctc.attempts <= MaxRetry + 1
            /\ \A i, j \in DOMAIN ctc.errors_raised :
                  ctc.errors_raised[i] = ctc.errors_raised[j] => i = j
            /\ ctc.pc = "done" =>
                  \/ ctc.result = "channel" /\ ctc.raised = NoError
                  \/ ctc.result = "raised" /\ ctc.raised = ctc.last)
    /\ [][(ctc.pc = "try" /\ ctc'.pc = "try")
             => /\ ctc'.last \notin Range(ctc.errors_raised)
                /\ ctc'.errors_raised = Append(ctc.errors_raised, ctc'.last)
                /\ ctc'.attempts = ctc.attempts + 1]_vars

\* the sixth attempt failed and its error was raised
C35_Witness ==
    /\ ctc.pc = "done"
    /\ ctc.attempts = MaxRetry + 1
    /\ ctc.result = "raised"
    /\ Len(ctc.errors_raised) = MaxRetry
    /\ ctc.raised \notin Range(ctc.errors_raised)

====
